---- MODULE Spec2Model ----
(***************************************************************************)
(* A model of fedikit: the typed entity / JSON-LD model (fedikit.model,    *)
(* fedikit.vocab) and the federation request adapter                        *)
(* (fedikit.federation.server).                                             *)
(*                                                                         *)
(* Python values are modelled as tagged records:                            *)
(*   str            [s |-> "..."]                                           *)
(*   LanguageString [s |-> "...", lang |-> "..."]                           *)
(*   int            [n |-> 3]                                               *)
(*   bool           [b |-> TRUE]                                            *)
(*   None           [none |-> TRUE]                                         *)
(*   EntityRef      [ref |-> uri]                                           *)
(*   Entity         [cls |-> class, values |-> map, extra |-> map]          *)
(* A slot of Entity._values is [id |-> uri] (a str) or [items |-> seq].     *)
(* JSON objects are functions over their keys, JSON arrays are sequences,   *)
(* JSON strings / numbers / booleans are [s |-> ..] / [n |-> ..] /          *)
(* [b |-> ..].  A call either returns, [ok |-> value], or raises,           *)
(* [err |-> exception class].                                               *)
(***************************************************************************)
EXTENDS Integers, Sequences, FiniteSets, TLC

VARIABLES
    server,     \* the Server registry: the five handles and the route map
    request,    \* the ASGI scope of the request handled last
    outcome,    \* what handling it did: hook, user callables called, messages sent
    entity,     \* the entity built last by named-argument construction
    read,       \* the last property read on it
    wire,       \* the JSON-LD document serialized or received last
    parsed,     \* the result of the last parse
    rendered,   \* the serialization of the parsed entity
    server2,    \* the server made by server.clone(), once it is made
    made,       \* the constructor calls of a comparison and their results
    compared,   \* what ==, != and hash() gave for the two entities made
    loading,    \* an entity with references and the load_entity_refs call on it
    entity_types,   \* the global registry of type URIs, empty until first use
    descriptors,    \* the global per-class descriptor cache
    uri_descriptors,    \* the global per-class cache of descriptors by URI
    tasks       \* the concurrent parsing tasks and where each one is

vars ==
    <<server, request, outcome, entity, read, wire, parsed, rendered,
      server2, made, compared, loading, entity_types, descriptors,
      uri_descriptors, tasks>>
serverVars == <<server, request, outcome, server2>>
entityVars == <<entity, read, wire, parsed, rendered>>
pairVars == <<made, compared>>
loadVars == <<loading>>
lazyVars == <<entity_types, descriptors, uri_descriptors, tasks>>

----------------------------------------------------------------------------
(* Python values and call results *)

PyStr(s) == [s |-> s]
LanguageString(s, l) == [s |-> s, lang |-> l]
PyInt(n) == [n |-> n]
PyBool(b) == [b |-> b]
None == [none |-> TRUE]
EntityRef(u) == [ref |-> u]

IsNone(v) == DOMAIN v = {"none"}
IsEntityRef(v) == DOMAIN v = {"ref"}
IsEntity(v) == DOMAIN v = {"cls", "values", "extra"}
IsStr(v) == DOMAIN v = {"s"}
IsLanguageString(v) == DOMAIN v = {"s", "lang"}
IsInt(v) == DOMAIN v = {"n"}
IsBool(v) == DOMAIN v = {"b"}

Ok(v) == [ok |-> v]
Raise(e) == [err |-> e]
IsOk(r) == "ok" \in DOMAIN r
IsErr(r) == "err" \in DOMAIN r

EmptyMap == [k \in {} |-> None]

IdSlot(u) == [id |-> u]
ItemsSlot(seq) == [items |-> seq]
IsStrSlot(slot) == DOMAIN slot = {"id"}

SeqToSet(seq) == {seq[i] : i \in DOMAIN seq}

\* The element of a one-element set: Only({F(x) : x \in {e}}) is F(e) with e
\* computed once.
Only(S) == CHOOSE x \in S : TRUE

RECURSIVE Concat(_)
Concat(seqs) == IF seqs = <<>> THEN <<>> ELSE Head(seqs) \o Concat(Tail(seqs))

----------------------------------------------------------------------------
(* The vocabulary: classes, type URIs, declared properties *)

Classes ==
    {"Entity", "Object", "Link", "Activity", "Create", "Note", "Actor",
     "Person", "Collection", "OrderedCollection", "CollectionPage",
     "OrderedCollectionPage"}

\* The method resolution order of each class, most specific first.
Mro(cls) ==
    CASE cls = "Entity" -> <<"Entity">>
      [] cls = "Object" -> <<"Object", "Entity">>
      [] cls = "Link" -> <<"Link", "Entity">>
      [] cls = "Activity" -> <<"Activity", "Object", "Entity">>
      [] cls = "Create" -> <<"Create", "Activity", "Object", "Entity">>
      [] cls = "Note" -> <<"Note", "Object", "Entity">>
      [] cls = "Actor" -> <<"Actor", "Object", "Entity">>
      [] cls = "Person" -> <<"Person", "Actor", "Object", "Entity">>
      [] cls = "Collection" -> <<"Collection", "Object", "Entity">>
      [] cls = "OrderedCollection" ->
            <<"OrderedCollection", "Collection", "Object", "Entity">>
      [] cls = "CollectionPage" ->
            <<"CollectionPage", "Collection", "Object", "Entity">>
      [] cls = "OrderedCollectionPage" ->
            <<"OrderedCollectionPage", "OrderedCollection", "CollectionPage",
              "Collection", "Object", "Entity">>

IsSubclass(sub, cls) == cls \in SeqToSet(Mro(sub))

\* The classes whose body sets __uri__ (Actor and OrderedCollectionPage set
\* none and inherit it along the MRO).
DeclaresUri ==
    {"Object", "Link", "Activity", "Create", "Note", "Person", "Collection",
     "OrderedCollection", "CollectionPage"}

RECURSIVE FirstDeclaringUri(_)
FirstDeclaringUri(mro) ==
    IF Head(mro) \in DeclaresUri THEN Head(mro)
    ELSE FirstDeclaringUri(Tail(mro))

ClassUri(cls) ==
    CASE cls = "Object" -> "https://www.w3.org/ns/activitystreams#Object"
      [] cls = "Link" -> "https://www.w3.org/ns/activitystreams#Link"
      [] cls = "Activity" -> "https://www.w3.org/ns/activitystreams#Activity"
      [] cls = "Create" -> "https://www.w3.org/ns/activitystreams#Create"
      [] cls = "Note" -> "https://www.w3.org/ns/activitystreams#Note"
      [] cls = "Person" -> "https://www.w3.org/ns/activitystreams#Person"
      [] cls = "Collection" ->
            "https://www.w3.org/ns/activitystreams#Collection"
      [] cls = "OrderedCollection" ->
            "https://www.w3.org/ns/activitystreams#OrderedCollection"
      [] cls = "CollectionPage" ->
            "https://www.w3.org/ns/activitystreams#CollectionPage"

\* cls.__uri__
TypeUri(cls) == ClassUri(FirstDeclaringUri(Mro(cls)))

\* A property descriptor together with the element types its annotation
\* resolves to (Uri resolves to str, Optional[T] appends NoneType).
IdProperty(name) ==
    [name |-> name, kind |-> "id", uri |-> "@id", subproperties |-> <<>>,
     types |-> <<"Uri">>]
SingularProperty(name, uri, subproperties, types) ==
    [name |-> name, kind |-> "singular", uri |-> uri,
     subproperties |-> subproperties, types |-> types \o <<"NoneType">>]
PluralProperty(name, uri, subproperties, types) ==
    [name |-> name, kind |-> "plural", uri |-> uri,
     subproperties |-> subproperties, types |-> types]

ObjectProperties ==
    {IdProperty("id"),
     SingularProperty("attributed_to",
        "https://www.w3.org/ns/activitystreams#attributedTo", <<>>,
        <<"EntityRef", "Object", "Link">>),
     PluralProperty("attributed_tos",
        "https://www.w3.org/ns/activitystreams#attributedTo", <<>>,
        <<"EntityRef", "Object", "Link">>),
     SingularProperty("name",
        "https://www.w3.org/ns/activitystreams#name", <<>>,
        <<"str", "LanguageString">>),
     PluralProperty("names",
        "https://www.w3.org/ns/activitystreams#name", <<>>,
        <<"str", "LanguageString">>),
     SingularProperty("url",
        "https://www.w3.org/ns/activitystreams#url", <<>>,
        <<"str", "Link">>),
     PluralProperty("urls",
        "https://www.w3.org/ns/activitystreams#url", <<>>,
        <<"str", "Link">>),
     SingularProperty("sensitive",
        "https://www.w3.org/ns/activitystreams#sensitive", <<>>,
        <<"bool">>)}

ActivityProperties ==
    {SingularProperty("actor",
        "https://www.w3.org/ns/activitystreams#actor", <<>>,
        <<"EntityRef", "Object", "Link">>),
     PluralProperty("actors",
        "https://www.w3.org/ns/activitystreams#actor", <<>>,
        <<"EntityRef", "Object", "Link">>),
     SingularProperty("attributed_to",
        "https://www.w3.org/ns/activitystreams#attributedTo",
        <<"https://www.w3.org/ns/activitystreams#actor">>,
        <<"EntityRef", "Object", "Link">>),
     PluralProperty("attributed_tos",
        "https://www.w3.org/ns/activitystreams#attributedTo",
        <<"https://www.w3.org/ns/activitystreams#actor">>,
        <<"EntityRef", "Object", "Link">>),
     SingularProperty("object",
        "https://www.w3.org/ns/activitystreams#object", <<>>,
        <<"EntityRef", "Object", "Link">>),
     PluralProperty("objects",
        "https://www.w3.org/ns/activitystreams#object", <<>>,
        <<"EntityRef", "Object", "Link">>)}

LinkProperties ==
    {IdProperty("id"),
     SingularProperty("href",
        "https://www.w3.org/ns/activitystreams#href", <<>>, <<"str">>),
     SingularProperty("rel",
        "https://www.w3.org/ns/activitystreams#rel", <<>>, <<"str">>),
     PluralProperty("rels",
        "https://www.w3.org/ns/activitystreams#rel", <<>>, <<"str">>),
     SingularProperty("media_type",
        "https://www.w3.org/ns/activitystreams#mediaType", <<>>, <<"str">>),
     SingularProperty("height",
        "https://www.w3.org/ns/activitystreams#height", <<>>, <<"int">>)}

CollectionProperties ==
    {SingularProperty("total_items",
        "https://www.w3.org/ns/activitystreams#totalItems", <<>>, <<"int">>),
     SingularProperty("first",
        "https://www.w3.org/ns/activitystreams#first", <<>>,
        <<"CollectionPage", "Link">>),
     SingularProperty("last",
        "https://www.w3.org/ns/activitystreams#last", <<>>,
        <<"CollectionPage", "Link">>),
     PluralProperty("items",
        "https://www.w3.org/ns/activitystreams#items", <<>>,
        <<"Object", "Link">>)}

CollectionPageProperties ==
    {SingularProperty("next",
        "https://www.w3.org/ns/activitystreams#next", <<>>,
        <<"CollectionPage", "Link">>),
     SingularProperty("prev",
        "https://www.w3.org/ns/activitystreams#prev", <<>>,
        <<"CollectionPage", "Link">>)}

ActorProperties ==
    {SingularProperty("preferred_username",
        "https://www.w3.org/ns/activitystreams#preferredUsername", <<>>,
        <<"str", "LanguageString">>)}

\* The properties a class body declares itself.
OwnProperties(cls) ==
    CASE cls = "Object" -> ObjectProperties
      [] cls = "Activity" -> ActivityProperties
      [] cls = "Link" -> LinkProperties
      [] cls = "Collection" -> CollectionProperties
      [] cls = "CollectionPage" -> CollectionPageProperties
      [] cls = "Actor" -> ActorProperties
      [] OTHER -> {}

\* dir(cls) lists attribute names in sorted order.
DirNames ==
    <<"actor", "actors", "attributed_to", "attributed_tos", "first", "height",
      "href", "id", "items", "last", "media_type", "name", "names", "next",
      "object", "objects", "preferred_username", "prev", "rel", "rels",
      "sensitive", "total_items", "url", "urls">>

\* getattr(cls, key, None): the attribute of the first class in the MRO that
\* declares it; None when no class does.
RECURSIVE Lookup(_, _)
Lookup(mro, key) ==
    IF mro = <<>> THEN None
    ELSE LET own == {d \in OwnProperties(Head(mro)) : d.name = key}
         IN IF own # {} THEN CHOOSE d \in own : TRUE
            ELSE Lookup(Tail(mro), key)

GetAttr(cls, key) == Lookup(Mro(cls), key)

IsProperty(desc) == ~IsNone(desc)

\* get_descriptors(cls): the (name, descriptor) pairs in dir() order.
get_descriptors(cls) ==
    SelectSeq([i \in DOMAIN DirNames |-> GetAttr(cls, DirNames[i])],
              IsProperty)

HasKey(map, key) == key \in DOMAIN map

\* The keys of a dict in the order the model visits them.  A dict built from
\* keyword arguments or from a JSON document is visited in insertion order;
\* the order decides only which exception escapes when several items fail.
KeyOrder ==
    <<"@id", "@type",
      "https://www.w3.org/ns/activitystreams#actor",
      "https://www.w3.org/ns/activitystreams#attributedTo",
      "https://www.w3.org/ns/activitystreams#first",
      "https://www.w3.org/ns/activitystreams#height",
      "https://www.w3.org/ns/activitystreams#href",
      "https://www.w3.org/ns/activitystreams#items",
      "https://www.w3.org/ns/activitystreams#last",
      "https://www.w3.org/ns/activitystreams#mediaType",
      "https://www.w3.org/ns/activitystreams#name",
      "https://www.w3.org/ns/activitystreams#next",
      "https://www.w3.org/ns/activitystreams#object",
      "https://www.w3.org/ns/activitystreams#preferredUsername",
      "https://www.w3.org/ns/activitystreams#prev",
      "https://www.w3.org/ns/activitystreams#rel",
      "https://www.w3.org/ns/activitystreams#sensitive",
      "https://www.w3.org/ns/activitystreams#totalItems",
      "https://www.w3.org/ns/activitystreams#url",
      "https://example.com/ns#ext">>

Keys(map) == SelectSeq(KeyOrder, LAMBDA k : k \in DOMAIN map)

\* The first raised exception among a sequence of call results, if any.
RECURSIVE FirstErr(_)
FirstErr(results) ==
    IF results = <<>> THEN None
    ELSE IF IsErr(Head(results)) THEN Head(results)
    ELSE FirstErr(Tail(results))

----------------------------------------------------------------------------
(* fedikit.model.descriptors: normalize and __get__ *)

\* Property.normalize(value)
normalize(desc, value) ==
    CASE desc.kind = "id" ->
            IF IsStr(value) THEN Ok(IdSlot(value.s))
            ELSE Raise("AssertionError")
      [] desc.kind = "singular" -> Ok(ItemsSlot(<<value>>))
      [] desc.kind = "plural" -> Ok(ItemsSlot(value))

\* A constructor loop without the test for a URI already set: the later
\* keyword replaces the slot of the earlier one.
RECURSIVE InitLoopLastWins(_, _, _)
InitLoopLastWins(cls, kwargs, values) ==
    IF kwargs = <<>> THEN Ok(values)
    ELSE LET key == Head(kwargs).name
             desc == GetAttr(cls, key)
         IN IF ~IsProperty(desc) THEN Raise("AttributeError")
            ELSE LET slot == normalize(desc, Head(kwargs).value)
                 IN IF IsErr(slot) THEN slot
                    ELSE InitLoopLastWins(cls, Tail(kwargs),
                            [uri \in DOMAIN values \cup {desc.uri} |->
                                IF uri = desc.uri THEN slot.ok
                                ELSE values[uri]])

\* Entity.__init__(**kwargs, __extra__=extra); kwargs is a sequence of
\* [name, value] in keyword order.
RECURSIVE InitLoop(_, _, _)
InitLoop(cls, kwargs, values) ==
    IF kwargs = <<>> THEN Ok(values)
    ELSE LET key == Head(kwargs).name
             desc == GetAttr(cls, key)
         IN IF ~IsProperty(desc) THEN Raise("AttributeError")
            ELSE IF desc.uri \in DOMAIN values THEN Raise("AttributeError")
            ELSE LET slot == normalize(desc, Head(kwargs).value)
                 IN IF IsErr(slot) THEN slot
                    ELSE InitLoop(cls, Tail(kwargs),
                                  values @@ (desc.uri :> slot.ok))

EntityInit(cls, kwargs, extra) ==
    LET values == InitLoop(cls, kwargs, EmptyMap)
    IN IF IsErr(values) THEN values
       ELSE Ok([cls |-> cls, values |-> values.ok, extra |-> extra])

\* instance._values[uri] for each of (uri, *subproperties): the slots read,
\* or KeyError at the first URI the dict does not hold.
RECURSIVE SlotsOf(_, _)
SlotsOf(instance, uris) ==
    IF uris = <<>> THEN Ok(<<>>)
    ELSE IF ~HasKey(instance.values, Head(uris)) THEN Raise("KeyError")
    ELSE LET rest == SlotsOf(instance, Tail(uris))
         IN IF IsErr(rest) THEN rest
            ELSE Ok(<<instance.values[Head(uris)].items>> \o rest.ok)

NotEntityRef(v) == ~IsEntityRef(v)

\* PluralProperty.__get__
PluralGet(desc, instance) ==
    LET slots == SlotsOf(instance, <<desc.uri>> \o desc.subproperties)
    IN IF IsErr(slots) THEN slots
       ELSE Ok(SelectSeq(Concat(slots.ok), NotEntityRef))

\* SingularProperty.__get__: the scan stops at the first non-reference item,
\* so slots after it are never looked up.
RECURSIVE SingularScan(_, _)
SingularScan(instance, uris) ==
    IF uris = <<>> THEN Ok(None)
    ELSE IF ~HasKey(instance.values, Head(uris)) THEN Raise("KeyError")
    ELSE LET found == SelectSeq(instance.values[Head(uris)].items,
                                NotEntityRef)
         IN IF found # <<>> THEN Ok(Head(found))
            ELSE SingularScan(instance, Tail(uris))

SingularGet(desc, instance) ==
    SingularScan(instance, <<desc.uri>> \o desc.subproperties)

\* IdProperty.__get__
IdGet(desc, instance) ==
    IF HasKey(instance.values, "@id") THEN Ok(PyStr(instance.values["@id"].id))
    ELSE Raise("KeyError")

\* getattr(instance, name) for a declared property name.
GetProperty(instance, name) ==
    LET desc == GetAttr(instance.cls, name)
    IN CASE desc.kind = "id" -> IdGet(desc, instance)
         [] desc.kind = "singular" -> SingularGet(desc, instance)
         [] desc.kind = "plural" -> PluralGet(desc, instance)

----------------------------------------------------------------------------
(* The JSON-LD algorithm (pyld), as far as the model's documents use it *)

\* A node of a property's array whose @id is not a string is a JSON-LD
\* syntax error ("invalid @id value").
InvalidIdNode(node) == HasKey(node, "@id") /\ ~IsStr(node["@id"])

\* Some node of some property's array has an invalid @id.
HasInvalidId(doc) ==
    \E k \in DOMAIN doc \ {"@id", "@type"} :
        \E i \in DOMAIN doc[k] : InvalidIdNode(doc[k][i])

\* jsonld.expand(doc)[0] on the document Entity.__jsonld__ builds: its
\* property keys are absolute URIs, its property values are arrays of
\* expanded nodes and its @type is one string, which becomes an array.
Expand(doc) ==
    IF HasInvalidId(doc) THEN Raise("JsonLdError")
    ELSE Ok([k \in DOMAIN doc |->
                IF k = "@type" THEN <<doc[k]>> ELSE doc[k]])

\* jsonld.expand(doc)[0] on a document already in expanded form.
ExpandExpanded(doc) ==
    IF HasInvalidId(doc) THEN Raise("JsonLdError") ELSE Ok(doc)

\* jsonld.compact(doc, context): the expanded document rendered against the
\* context; expansion errors are raised by compaction too.
Compact(doc, context) ==
    LET expanded == Expand(doc)
    IN IF IsErr(expanded) THEN expanded
       ELSE Ok([context |-> context, compacted |-> expanded.ok])

\* cls.__default_context__
DefaultContext(cls) == "https://www.w3.org/ns/activitystreams"

----------------------------------------------------------------------------
(* fedikit.model.converters.jsonld and Entity.__jsonld__ *)

RECURSIVE jsonld(_, _)
RECURSIVE EntityJsonld(_, _)

\* One slot item as a node: an EntityRef v becomes {"@id": v}, anything else
\* goes through jsonld(v, expand=True).
ItemNode(v) ==
    IF IsEntityRef(v) THEN Ok("@id" :> v) ELSE jsonld(v, TRUE)

\* Entity.__jsonld__(expand=expand); the base class Entity sets no __uri__,
\* so type(self).__uri__ fails on a bare Entity.
EntityJsonld(self, expand) ==
    LET uris == Keys(self.values)
        seqSlots == SelectSeq(uris, LAMBDA u : ~IsStrSlot(self.values[u]))
        nodes == [u \in SeqToSet(seqSlots) |->
                    [i \in DOMAIN self.values[u].items |->
                        ItemNode(self.values[u].items[i])]]
        failed == FirstErr(Concat([j \in DOMAIN seqSlots |->
                                        nodes[seqSlots[j]]]))
        doc == [k \in {"@type"} \cup DOMAIN self.values \cup DOMAIN self.extra
                |-> IF k \in DOMAIN self.extra THEN self.extra[k]
                    ELSE IF k = "@type" THEN PyStr(TypeUri(self.cls))
                    ELSE IF IsStrSlot(self.values[k])
                         THEN PyStr(self.values[k].id)
                    ELSE [i \in DOMAIN nodes[k] |-> nodes[k][i].ok]]
    IN IF self.cls = "Entity" THEN Raise("AttributeError")
       ELSE IF IsErr(failed) THEN failed
       ELSE IF expand THEN Expand(doc)
       ELSE Compact(doc, DefaultContext(self.cls))

XsdInteger == "http://www.w3.org/2001/XMLSchema#integer"
XsdNonNegativeInteger == "http://www.w3.org/2001/XMLSchema#nonNegativeInteger"

\* LanguageString.__jsonld__
LanguageStringJsonld(value) ==
    ("@value" :> PyStr(value.s)) @@ ("@language" :> PyStr(value.lang))

\* converters.jsonld(value, expand=expand)
jsonld(value, expand) ==
    IF IsEntity(value) THEN EntityJsonld(value, expand)
    ELSE IF IsLanguageString(value) THEN Ok(LanguageStringJsonld(value))
    ELSE IF IsStr(value) \/ IsBool(value) THEN Ok("@value" :> value)
    ELSE IF IsInt(value)
         THEN Ok(("@value" :> value) @@
                 ("@type" :> PyStr(IF value.n < 0 THEN XsdInteger
                                   ELSE XsdNonNegativeInteger)))
    ELSE Raise("TypeError")

----------------------------------------------------------------------------
(* fedikit.model.converters.from_jsonld, Property.parse_jsonld and        *)
(* Entity.__from_jsonld__                                                  *)

MaxInt == 3

\* str(v) of a JSON scalar
StrOf(v) ==
    IF IsStr(v) THEN v.s
    ELSE IF IsInt(v) THEN ToString(v.n)
    ELSE IF v.b THEN "True" ELSE "False"

\* bool(v) of a JSON scalar
BoolOf(v) ==
    IF IsStr(v) THEN v.s # ""
    ELSE IF IsInt(v) THEN v.n # 0
    ELSE v.b

\* int(v) of a JSON scalar: ValueError for a string that is no numeral
IntOf(v) ==
    IF IsInt(v) THEN Ok(PyInt(v.n))
    ELSE IF IsBool(v) THEN Ok(PyInt(IF v.b THEN 1 ELSE 0))
    ELSE IF \E n \in -MaxInt..MaxInt : ToString(n) = v.s
         THEN Ok(PyInt(CHOOSE n \in -MaxInt..MaxInt : ToString(n) = v.s))
    ELSE Raise("ValueError")

\* entity_types / get_entity_type(type_uri): the class registered for a type
\* URI, None when there is none.  Object is registered before Actor and
\* OrderedCollection before OrderedCollectionPage, which inherit their URIs.
get_entity_type(type_uri) ==
    IF \E c \in DeclaresUri : ClassUri(c) = type_uri
    THEN PyStr(CHOOSE c \in DeclaresUri : ClassUri(c) = type_uri)
    ELSE None

\* get_uri_descriptors(cls).get(uri, {}), plural properties first.
Candidates(cls, uri) ==
    LET atUri == SelectSeq(get_descriptors(cls), LAMBDA d : d.uri = uri)
    IN SelectSeq(atUri, LAMBDA d : d.kind # "singular") \o
       SelectSeq(atUri, LAMBDA d : d.kind = "singular")

NoMatch == [nomatch |-> TRUE]
IsNoMatch(r) == "nomatch" \in DOMAIN r

RECURSIVE from_jsonld(_, _)
RECURSIVE EntityFromJsonld(_, _)

\* LanguageString.__from_jsonld__
LanguageStringFromJsonld(document) ==
    IF HasKey(document, "@value") /\ HasKey(document, "@language")
    THEN Ok(LanguageString(document["@value"].s, document["@language"].s))
    ELSE Raise("KeyError")

\* converters.from_jsonld(cls, document)
from_jsonld(cls, document) ==
    IF cls \in Classes THEN EntityFromJsonld(cls, document)
    ELSE IF cls = "LanguageString" THEN LanguageStringFromJsonld(document)
    ELSE IF cls \in {"str", "bool", "int"} /\ ~HasKey(document, "@value")
         THEN Raise("KeyError")
    ELSE IF cls = "str" THEN Ok(PyStr(StrOf(document["@value"])))
    ELSE IF cls = "bool" THEN Ok(PyBool(BoolOf(document["@value"])))
    ELSE IF cls = "int" THEN IntOf(document["@value"])
    ELSE Raise("ValueError")

\* for t in types: try from_jsonld(t, v) except ValueError: continue
RECURSIVE TryTypes(_, _)
TryTypes(types, v) ==
    IF types = <<>> THEN NoMatch
    ELSE LET r == from_jsonld(Head(types), v)
         IN IF IsErr(r) /\ r.err = "ValueError" THEN TryTypes(Tail(types), v)
            ELSE r

\* One entry of a property's array: a node with only @id is an EntityRef
\* before any type is tried.
ParseItem(types, v) ==
    IF DOMAIN v = {"@id"} THEN Ok(EntityRef(v["@id"].s))
    ELSE TryTypes(types, v)

\* PluralProperty.parse_jsonld: an entry no type accepts is left out.
RECURSIVE PluralParse(_, _)
PluralParse(types, value) ==
    IF value = <<>> THEN Ok(<<>>)
    ELSE LET r == ParseItem(types, Head(value))
         IN IF IsErr(r) THEN r
            ELSE LET rest == PluralParse(types, Tail(value))
                 IN IF IsErr(rest) THEN rest
                    ELSE IF IsNoMatch(r) THEN rest
                    ELSE Ok(<<r.ok>> \o rest.ok)

\* SingularProperty.parse_jsonld: the first entry some type accepts.
RECURSIVE SingularParse(_, _)
SingularParse(types, value) ==
    IF value = <<>> THEN Raise("ValueError")
    ELSE LET r == ParseItem(types, Head(value))
         IN IF IsNoMatch(r) THEN SingularParse(types, Tail(value))
            ELSE r

\* desc.parse_jsonld(type_hints[name], value)
parse_jsonld(desc, value) ==
    CASE desc.kind = "id" -> Ok(value)
      [] desc.kind = "plural" -> PluralParse(desc.types, value)
      [] desc.kind = "singular" -> SingularParse(desc.types, value)

\* The candidates of one URI in turn: TypeError moves on to the next one.
RECURSIVE TryCandidates(_, _)
TryCandidates(descs, vals) ==
    IF descs = <<>> THEN NoMatch
    ELSE LET r == parse_jsonld(Head(descs), vals)
         IN IF IsErr(r) /\ r.err = "TypeError"
            THEN TryCandidates(Tail(descs), vals)
            ELSE IF IsErr(r) THEN r
            ELSE Ok([name |-> Head(descs).name, value |-> r.ok])

\* The loop over doc.items(): the keyword arguments and the extras.
RECURSIVE ParseProperties(_, _, _, _, _)
ParseProperties(cls, doc, uris, kwargs, extra) ==
    IF uris = <<>> THEN EntityInit(cls, kwargs, extra)
    ELSE LET uri == Head(uris)
             r == TryCandidates(Candidates(cls, uri), doc[uri])
         IN IF IsErr(r) THEN r
            ELSE IF IsNoMatch(r)
                 THEN ParseProperties(cls, doc, Tail(uris), kwargs,
                        IF uri # "@type" THEN extra @@ (uri :> doc[uri])
                        ELSE extra)
            ELSE ParseProperties(cls, doc, Tail(uris),
                                 Append(kwargs, r.ok), extra)

\* for doc_type in doc["@type"]: the first registered subclass of cls
RECURSIVE ResolveType(_, _)
ResolveType(cls, docTypes) ==
    IF docTypes = <<>> THEN None
    ELSE LET entity_type == get_entity_type(Head(docTypes).s)
         IN IF ~IsNone(entity_type) /\ IsSubclass(entity_type.s, cls)
            THEN entity_type
            ELSE ResolveType(cls, Tail(docTypes))

\* Entity.__from_jsonld__(document)
EntityFromJsonld(cls, document) ==
    LET expanded == ExpandExpanded(document)
    IN IF IsErr(expanded) THEN expanded
       ELSE LET doc == expanded.ok
            IN IF HasKey(doc, "@type") /\
                  (cls = "Entity" \/
                   PyStr(TypeUri(cls)) \notin SeqToSet(doc["@type"]))
               THEN LET entity_type == ResolveType(cls, doc["@type"])
                    IN IF IsNone(entity_type) THEN Raise("ValueError")
                       ELSE EntityFromJsonld(entity_type.s, doc)
               ELSE ParseProperties(cls, doc, Keys(doc), <<>>, EmptyMap)

----------------------------------------------------------------------------
(* The entity model driven by a caller: construct, read, serialize, parse *)

MaxItems == 2

Alice == "https://example.com/alice"
ExtUri == "https://example.com/ns#ext"
AS(term) == "https://www.w3.org/ns/activitystreams#" \o term

\* Person(id=Alice), Link(href="https://example.com/l"), CollectionPage()
APerson ==
    [cls |-> "Person", values |-> ("@id" :> IdSlot(Alice)), extra |-> EmptyMap]
ALink ==
    [cls |-> "Link",
     values |-> (AS("href") :> ItemsSlot(<<PyStr("https://example.com/l")>>)),
     extra |-> EmptyMap]
APage == [cls |-> "CollectionPage", values |-> EmptyMap, extra |-> EmptyMap]

\* The values an annotation admits, by element type.
ValuesOfType(type) ==
    CASE type = "str" -> {PyStr("hi")}
      [] type = "Uri" -> {PyStr(Alice)}
      [] type = "LanguageString" -> {LanguageString("hi", "en")}
      [] type = "int" -> {PyInt(0), PyInt(MaxItems)}
      [] type = "bool" -> {PyBool(TRUE), PyBool(FALSE)}
      [] type = "EntityRef" -> {EntityRef(Alice)}
      [] type = "Object" -> {APerson}
      [] type = "Link" -> {ALink}
      [] type = "CollectionPage" -> {APage}
      [] type = "NoneType" -> {None}

ValuesOf(types) == UNION {ValuesOfType(types[i]) : i \in DOMAIN types}

SeqsUpTo(S, n) == UNION {[1..k -> S] : k \in 0..n}

\* The arguments a caller may pass for a declared property.
ArgumentsOf(desc) ==
    IF desc.kind = "plural" THEN SeqsUpTo(ValuesOf(desc.types), MaxItems)
    ELSE ValuesOf(desc.types)

ConstructClasses == {"Activity", "Note", "Link", "Collection"}

Declared(cls) ==
    {GetAttr(cls, DirNames[i]) : i \in DOMAIN DirNames} \ {None}

\* A keyword argument: a declared property with a value of its type, or a
\* name the class does not declare.
Keywords(cls) ==
    UNION {{[name |-> d.name, value |-> v] : v \in ArgumentsOf(d)} :
                d \in Declared(cls)}
    \cup {[name |-> "bogus", value |-> PyStr("hi")]}

\* A second keyword argument, from the properties whose URI or subproperty
\* another keyword can share.
MoreKeywords(cls) ==
    {k \in Keywords(cls) : k.name \in {"attributed_to", "name"}}

\* Documents a peer may send, in expanded form: a type (or none), and any
\* of an @id, a name, a totalItems value, an attributedTo reference and an
\* extension property; and a Collection whose totalItems is a string, a
\* numeral or not.
DocTypes ==
    {<<>>, <<PyStr(AS("Note"))>>, <<PyStr(AS("Collection"))>>,
     <<PyStr(AS("Person"))>>, <<PyStr("https://example.com/ns#Unknown")>>,
     <<PyStr("https://example.com/ns#Unknown"), PyStr(AS("Note"))>>,
     <<PyStr(AS("Object")), PyStr(AS("Note"))>>,
     <<PyStr(AS("Note")), PyStr(AS("Object"))>>}

ExtValues ==
    {<<"@value" :> PyStr("x")>>,
     <<"@id" :> PyStr(Alice)>>,
     <<"@value" :> PyStr("x"), "@value" :> PyInt(MaxItems)>>}

InputDocs ==
    {(IF types = <<>> THEN EmptyMap ELSE "@type" :> types) @@
     (IF withId THEN "@id" :> PyStr(Alice) ELSE EmptyMap) @@
     (IF withName THEN AS("name") :> <<"@value" :> PyStr("hi")>>
      ELSE EmptyMap) @@
     (IF withTotal THEN AS("totalItems") :> <<"@value" :> PyInt(MaxItems)>>
      ELSE EmptyMap) @@
     (IF withRef THEN AS("attributedTo") :> <<"@id" :> PyStr(Alice)>>
      ELSE EmptyMap) @@
     (IF ext = <<>> THEN EmptyMap ELSE ExtUri :> ext) :
        types \in DocTypes, withId \in BOOLEAN, withName \in BOOLEAN,
        withTotal \in BOOLEAN, withRef \in BOOLEAN,
        ext \in ExtValues \cup {<<>>}}
    \cup
    {("@type" :> <<PyStr(AS("Collection"))>>) @@
     (AS("totalItems") :> <<"@value" :> PyStr(total)>>) :
        total \in {ToString(MaxInt), "x"}}

Targets == {"Entity", "Object", "Note", "Link", "Collection"}

EntityInit0 ==
    /\ entity = None /\ read = None /\ wire = None
    /\ parsed = None /\ rendered = None

\* cls(**kwargs)
New(cls, kwargs) ==
    /\ entity = None /\ wire = None
    /\ entity' = EntityInit(cls, kwargs, EmptyMap)
    /\ read' = None /\ wire' = None /\ parsed' = None /\ rendered' = None
    /\ UNCHANGED <<serverVars, pairVars, loadVars, lazyVars>>

\* entity.<name>
Read(name) ==
    /\ IsOk(entity) /\ wire = None
    /\ read' = [name |-> name,
                result |-> IF IsProperty(GetAttr(entity.ok.cls, name))
                           THEN GetProperty(entity.ok, name)
                           ELSE Raise("AttributeError")]
    /\ UNCHANGED <<entity, wire, parsed, rendered>>
    /\ UNCHANGED <<serverVars, pairVars, loadVars, lazyVars>>

\* await jsonld(entity, expand=expand)
ToJsonLd(expand) ==
    /\ IsOk(entity)
    /\ wire' = [origin |-> "entity", expand |-> expand,
                result |-> jsonld(entity.ok, expand)]
    /\ read' = None /\ parsed' = None /\ rendered' = None
    /\ UNCHANGED entity
    /\ UNCHANGED <<serverVars, pairVars, loadVars, lazyVars>>

\* A document arrives from a peer.
Receive(doc) ==
    /\ entity = None /\ wire = None
    /\ wire' = [origin |-> "peer", expand |-> TRUE, result |-> Ok(doc)]
    /\ entity' = None /\ read' = None /\ parsed' = None /\ rendered' = None
    /\ UNCHANGED <<serverVars, pairVars, loadVars, lazyVars>>

\* await from_jsonld(target, wire): the entity's own class for a document
\* it was serialized to, a class of the caller's choice for a received one.
FromJsonLd(target) ==
    /\ ~IsNone(wire) /\ IsOk(wire.result) /\ wire.expand
    /\ wire.origin = "entity" => target = entity.ok.cls
    /\ parsed' = [target |-> target,
                  result |-> from_jsonld(target, wire.result.ok)]
    /\ rendered' = None
    /\ UNCHANGED <<entity, read, wire>>
    /\ UNCHANGED <<serverVars, pairVars, loadVars, lazyVars>>

\* await jsonld(parsed, expand=True)
Render ==
    /\ ~IsNone(parsed) /\ IsOk(parsed.result)
    /\ rendered' = jsonld(parsed.result.ok, TRUE)
    /\ UNCHANGED <<entity, read, wire, parsed>>
    /\ UNCHANGED <<serverVars, pairVars, loadVars, lazyVars>>

NextEntity ==
    \/ \E cls \in ConstructClasses : \E k \in Keywords(cls) :
            New(cls, <<k>>)
    \/ \E cls \in ConstructClasses :
            \E k \in Keywords(cls) : \E m \in MoreKeywords(cls) :
                New(cls, <<k, m>>)
    \/ \E i \in DOMAIN DirNames : Read(DirNames[i])
    \/ \E expand \in BOOLEAN : ToJsonLd(expand)
    \/ \E doc \in InputDocs : Receive(doc)
    \/ \E target \in Classes : FromJsonLd(target)
    \/ Render

\* No comparison has been made.
PairInit0 == made = <<>> /\ compared = None

\* No entity has been given to load_entity_refs.
LoadInit0 == loading = None

\* The tasks that may parse at the same time.
MaxTasks == 2
Tasks == 1..MaxTasks

\* A task that is not parsing.
Idle == [pc |-> "idle"]

\* Nothing has used the registry or the descriptor caches, no task runs.
LazyInit0 ==
    /\ entity_types = EmptyMap /\ descriptors = EmptyMap
    /\ uri_descriptors = EmptyMap
    /\ tasks = [t \in Tasks |-> Idle]

InitEntity ==
    /\ EntityInit0 /\ PairInit0 /\ LoadInit0 /\ LazyInit0
    /\ server = None /\ request = None /\ outcome = None
    /\ server2 = None

SpecEntity == InitEntity /\ [][NextEntity]_vars

----------------------------------------------------------------------------
(* Entity.__eq__, __ne__ and __hash__, and the == and hash() of the values *)
(* an entity holds                                                        *)

RECURSIVE PyEq(_, _)
RECURSIVE EntityEq(_, _)
RECURSIVE PyHash(_)
RECURSIVE EntityHash(_)

\* bool is a subclass of int: True == 1 and hash(True) == 1.
IsNum(v) == IsInt(v) \/ IsBool(v)
Num(v) == IF IsBool(v) THEN (IF v.b THEN 1 ELSE 0) ELSE v.n

\* a == b for two values of a slot.  LanguageString.__eq__ wants a
\* LanguageString with the same text and language, so a LanguageString and
\* a plain str are unequal either way round; EntityRef.__eq__ compares the
\* URIs.
PyEq(a, b) ==
    CASE IsEntity(a) /\ IsEntity(b) -> EntityEq(a, b)
      [] IsEntityRef(a) /\ IsEntityRef(b) -> a.ref = b.ref
      [] IsLanguageString(a) /\ IsLanguageString(b) ->
            a.s = b.s /\ a.lang = b.lang
      [] IsStr(a) /\ IsStr(b) -> a.s = b.s
      [] IsNum(a) /\ IsNum(b) -> Num(a) = Num(b)
      [] IsNone(a) /\ IsNone(b) -> TRUE
      [] OTHER -> FALSE

\* slot == slot: a str (the @id) or a list, compared item by item in order.
SlotEq(a, b) ==
    IF IsStrSlot(a) \/ IsStrSlot(b)
    THEN IsStrSlot(a) /\ IsStrSlot(b) /\ a.id = b.id
    ELSE /\ Len(a.items) = Len(b.items)
         /\ \A i \in DOMAIN a.items : PyEq(a.items[i], b.items[i])

\* An equality that looks at the values and extras only, whatever the types.
EntityEqByValues(self, other) ==
    /\ DOMAIN self.values = DOMAIN other.values
    /\ \A uri \in DOMAIN self.values :
            SlotEq(self.values[uri], other.values[uri])
    /\ self.extra = other.extra

\* Entity.__eq__(self, other) for an entity `other`
EntityEq(self, other) ==
    IF self.cls # other.cls THEN FALSE
    ELSE /\ DOMAIN self.values = DOMAIN other.values
         /\ \A uri \in DOMAIN self.values :
                SlotEq(self.values[uri], other.values[uri])
         /\ DOMAIN self.extra = DOMAIN other.extra
         /\ \A uri \in DOMAIN self.extra : self.extra[uri] = other.extra[uri]

\* Entity.__ne__
EntityNe(self, other) == ~EntityEq(self, other)

\* Hashes are folded in words of HashWidth bits (32 in the code).
HashWidth == 16
HashModulus == 2 ^ HashWidth

\* hv = (37 * hv & 0xFFFFFFFF) + h & 0xFFFFFFFF: + binds tighter than &.
Fold(hv, h) == (((37 * hv) % HashModulus) + h) % HashModulus

\* a ^ b on non-negative integers
RECURSIVE Xor(_, _)
Xor(a, b) ==
    IF a = 0 THEN b
    ELSE IF b = 0 THEN a
    ELSE (((a % 2) + (b % 2)) % 2) + 2 * Xor(a \div 2, b \div 2)

\* The keys of a dict sorted as strings.
SortedKeys(map) ==
    SelectSeq(<<"@id", "@type", ExtUri>> \o
                    SubSeq(KeyOrder, 3, Len(KeyOrder) - 1),
              LAMBDA k : k \in DOMAIN map)

\* hash(s) of a str and hash(cls) of a class: one number for each string
\* and each class of the model, as one interpreter run assigns them.
Hashed ==
    KeyOrder \o
    <<"hi", "en", "x", Alice, "https://example.com/l", "Entity", "Object",
      "Link", "Activity", "Create", "Note", "Actor", "Person", "Collection",
      "OrderedCollection", "CollectionPage", "OrderedCollectionPage">>
StrHash(s) == CHOOSE i \in DOMAIN Hashed : Hashed[i] = s

\* The fold of the hashes of a list's items, or the first exception.
RECURSIVE FoldItems(_, _)
FoldItems(hv, items) ==
    IF items = <<>> THEN Ok(hv)
    ELSE LET h == PyHash(Head(items))
         IN IF IsErr(h) THEN h
            ELSE FoldItems(Fold(hv, h.ok), Tail(items))

\* The loop over the sorted values of __hash__.
RECURSIVE FoldValues(_, _, _)
FoldValues(hv, values, uris) ==
    IF uris = <<>> THEN Ok(hv)
    ELSE LET slot == values[Head(uris)]
             hu == Fold(hv, StrHash(Head(uris)))
         IN IF IsStrSlot(slot)
            THEN FoldValues(Fold(hu, StrHash(slot.id)), values, Tail(uris))
            ELSE LET hs == FoldItems(hu, slot.items)
                 IN IF IsErr(hs) THEN hs
                    ELSE FoldValues(hs.ok, values, Tail(uris))

\* The loop over the sorted extras of __hash__.  An extra's value is the
\* array the expanded document holds at the URI, and hash() of a list
\* raises TypeError.
FoldExtras(hv, extra, uris) ==
    IF uris = <<>> THEN Ok(hv) ELSE Raise("TypeError")

\* Entity.__hash__
EntityHash(self) ==
    LET hv == FoldValues(StrHash(self.cls), self.values,
                         SortedKeys(self.values))
    IN IF IsErr(hv) THEN hv
       ELSE FoldExtras(hv.ok, self.extra, SortedKeys(self.extra))

\* hash(v) of a value of a slot
PyHash(v) ==
    CASE IsEntity(v) -> EntityHash(v)
      [] IsEntityRef(v) -> Ok(StrHash(v.ref))
      [] IsLanguageString(v) -> Ok(Xor(StrHash(v.s), StrHash(v.lang)))
      [] IsStr(v) -> Ok(StrHash(v.s))
      [] IsNum(v) -> Ok(Num(v))
      [] IsNone(v) -> Ok(0)

----------------------------------------------------------------------------
(* Two entities made by a caller and compared *)

PairClasses == {"Object", "Note"}

\* The keyword arguments of the comparison: the id, a name through either
\* alias, an attribution, or a name the class does not declare.
PairKeywords(cls) ==
    {k \in Keywords(cls) :
        k.name \in {"id", "name", "names", "attributed_to", "bogus"}}

\* A Note a peer may send: with or without an @id, a name and an extension
\* property.
PairDocs ==
    {d \in InputDocs :
        /\ HasKey(d, "@type") /\ d["@type"] = <<PyStr(AS("Note"))>>
        /\ ~HasKey(d, AS("totalItems")) /\ ~HasKey(d, AS("attributedTo"))}

\* cls(**kwargs)
Construct(cls, kwargs) ==
    /\ Len(made) < 2
    /\ made' = Append(made, [call |-> "new", cls |-> cls, input |-> kwargs,
                             result |-> EntityInit(cls, kwargs, EmptyMap)])
    /\ compared' = None
    /\ UNCHANGED <<serverVars, entityVars, loadVars, lazyVars>>

\* await from_jsonld(target, doc)
Parse(target, doc) ==
    /\ Len(made) < 2
    /\ made' = Append(made, [call |-> "parse", cls |-> target, input |-> doc,
                             result |-> from_jsonld(target, doc)])
    /\ compared' = None
    /\ UNCHANGED <<serverVars, entityVars, loadVars, lazyVars>>

\* a == b, b == a, a != b, hash(a), hash(b) for the two entities made
Compare ==
    /\ Len(made) = 2 /\ IsNone(compared)
    /\ IsOk(made[1].result) /\ IsOk(made[2].result)
    /\ LET a == made[1].result.ok
           b == made[2].result.ok
       IN compared' = [eq |-> EntityEq(a, b), qe |-> EntityEq(b, a),
                       ne |-> EntityNe(a, b),
                       hash |-> <<EntityHash(a), EntityHash(b)>>]
    /\ UNCHANGED made
    /\ UNCHANGED <<serverVars, entityVars, loadVars, lazyVars>>

NextPair ==
    \/ \E cls \in PairClasses : Construct(cls, <<>>)
    \/ \E cls \in PairClasses : \E k \in PairKeywords(cls) :
            Construct(cls, <<k>>)
    \/ \E cls \in PairClasses :
            \E k \in PairKeywords(cls) : \E m \in MoreKeywords(cls) :
                Construct(cls, <<k, m>>)
    \/ \E target \in PairClasses : \E doc \in PairDocs : Parse(target, doc)
    \/ Compare

SpecPair == InitEntity /\ [][NextPair]_vars

----------------------------------------------------------------------------
(* fedikit.model.entity: EntityRef.load and load_entity_refs *)

NoteUri == "https://example.com/notes/1"
GoneUri == "https://example.com/gone"

\* The documents the loader has, by URI, as jsonld.expand gives them; for
\* any other URI the loader has none.
RemoteDocuments ==
    (Alice :> (("@type" :> <<PyStr(AS("Person"))>>) @@
               ("@id" :> PyStr(Alice)))) @@
    (NoteUri :> (("@type" :> <<PyStr(AS("Note"))>>) @@
                 (AS("name") :> <<"@value" :> PyStr("hi")>>)))

\* await EntityRef(uri).load(Entity, loader): the loader's document, expanded
\* and parsed as Entity; JsonLdError when the loader has no document.
EntityRef_load(uri) ==
    IF uri \in DOMAIN RemoteDocuments
    THEN EntityFromJsonld("Entity", RemoteDocuments[uri])
    ELSE Raise("JsonLdError")

\* The `properties` argument: None, a str, a list of names, or an iterator
\* over names that can be iterated once.
NameList(names) == [list |-> names]
NameIterator(names) == [iterator |-> names]

\* The names that `for prop in properties` yields (a str stands for the
\* list of itself).
NamesOf(properties) ==
    IF IsStr(properties) THEN <<properties.s>>
    ELSE IF "list" \in DOMAIN properties THEN properties.list
    ELSE properties.iterator

\* `name in properties` in the resolving loop, after the checking loop has
\* iterated `properties` to its end: a list still holds its names, an
\* iterator yields nothing any more.
NameIn(name, properties) ==
    IF "iterator" \in DOMAIN properties THEN FALSE
    ELSE name \in SeqToSet(NamesOf(properties))

\* for i, value in enumerate(slot): a reference is replaced by what it
\* loads; a failed load leaves the loop with the items replaced so far.
RECURSIVE LoadSlot(_, _, _)
LoadSlot(items, i, loads) ==
    IF i > Len(items)
    THEN [items |-> items, result |-> Ok(None), loads |-> loads]
    ELSE IF IsEntityRef(items[i])
    THEN Only({IF IsErr(loaded)
               THEN [items |-> items, result |-> loaded,
                     loads |-> Append(loads, items[i].ref)]
               ELSE LoadSlot([items EXCEPT ![i] = loaded.ok], i + 1,
                             Append(loads, items[i].ref)) :
                 loaded \in {EntityRef_load(items[i].ref)}})
    ELSE LoadSlot(items, i + 1, loads)

\* for name, descriptor in descriptors.items(): the names not in
\* `properties` are skipped, and so are an unset slot and the str slot.
RECURSIVE LoadLoop(_, _, _, _)
LoadLoop(values, descs, properties, loads) ==
    IF descs = <<>>
    THEN [values |-> values, result |-> Ok(None), loads |-> loads]
    ELSE LET d == Head(descs)
         IN IF ~IsNone(properties) /\ ~NameIn(d.name, properties)
            THEN LoadLoop(values, Tail(descs), properties, loads)
            ELSE IF d.uri \notin DOMAIN values \/ IsStrSlot(values[d.uri])
            THEN LoadLoop(values, Tail(descs), properties, loads)
            ELSE Only({IF IsErr(r.result)
                       THEN [values |-> [values EXCEPT
                                            ![d.uri] = ItemsSlot(r.items)],
                             result |-> r.result, loads |-> r.loads]
                       ELSE LoadLoop([values EXCEPT
                                        ![d.uri] = ItemsSlot(r.items)],
                                     Tail(descs), properties, r.loads) :
                         r \in {LoadSlot(values[d.uri].items, 1, loads)}})

\* The names of the descriptors of a class.
DescriptorNames(cls) ==
    {get_descriptors(cls)[i].name : i \in DOMAIN get_descriptors(cls)}

\* await load_entity_refs(entity, properties, loader): the entity as the
\* call leaves it, how the call ended, and the URIs given to the loader.
load_entity_refs(instance, properties) ==
    IF /\ ~IsNone(properties)
       /\ \E i \in DOMAIN NamesOf(properties) :
            NamesOf(properties)[i] \notin DescriptorNames(instance.cls)
    THEN [entity |-> instance, result |-> Raise("AttributeError"),
          loads |-> <<>>]
    ELSE Only({[entity |-> [instance EXCEPT !.values = r.values],
                result |-> r.result, loads |-> r.loads] :
                  r \in {LoadLoop(instance.values,
                                  get_descriptors(instance.cls),
                                  properties, <<>>)}})

\* The keyword arguments of the activities given to load_entity_refs:
\* references, entities and both in one list.
LoadKeywords ==
    {Concat(<<id, actor, objects, attributed_to>>) :
        id \in {<<>>, <<[name |-> "id", value |-> PyStr(NoteUri)]>>},
        actor \in {<<>>} \cup
            {<<[name |-> "actor", value |-> v]>> :
                v \in {EntityRef(Alice), EntityRef(GoneUri), APerson}},
        objects \in {<<>>} \cup
            {<<[name |-> "objects", value |-> v]>> :
                v \in {<<EntityRef(NoteUri)>>,
                       <<EntityRef(NoteUri), APerson, EntityRef(Alice)>>}},
        attributed_to \in
            {<<>>, <<[name |-> "attributed_to", value |-> EntityRef(Alice)]>>}}

\* The `properties` arguments given to load_entity_refs.
LoadProperties ==
    {None} \cup
    {PyStr(name) :
        name \in {"actor", "object", "objects", "attributed_to", "bogus"}} \cup
    {NameList(names) :
        names \in {<<>>, <<"actor", "object">>, <<"attributed_tos">>,
                   <<"actor", "bogus">>}} \cup
    {NameIterator(names) : names \in {<<"object">>, <<"bogus", "actor">>}}

\* entity = Activity(**kwargs)
NewActivity(kwargs) ==
    /\ loading = None
    /\ \E built \in {EntityInit("Activity", kwargs, EmptyMap)} :
        /\ IsOk(built)
        /\ loading' = [before |-> built.ok, properties |-> None,
                       after |-> None, result |-> None, loads |-> <<>>]
    /\ UNCHANGED <<serverVars, entityVars, pairVars, lazyVars>>

\* await load_entity_refs(entity, properties, loader)
LoadEntityRefs(properties) ==
    /\ loading # None /\ IsNone(loading.result)
    /\ loading' =
        Only({[before |-> loading.before, properties |-> properties,
               after |-> r.entity, result |-> r.result, loads |-> r.loads] :
                r \in {load_entity_refs(loading.before, properties)}})
    /\ UNCHANGED <<serverVars, entityVars, pairVars, lazyVars>>

NextLoad ==
    \/ \E kwargs \in LoadKeywords : NewActivity(kwargs)
    \/ \E properties \in LoadProperties : LoadEntityRefs(properties)

SpecLoad == InitEntity /\ [][NextLoad]_vars

----------------------------------------------------------------------------
(* fedikit.model.entity: the lazily built registry and descriptor caches *)

\* cls.__subclasses__(): the direct subclasses, in the order the vocabulary
\* modules define them.
Subclasses(cls) ==
    CASE cls = "Entity" -> <<"Link", "Object">>
      [] cls = "Object" -> <<"Note", "Collection", "Activity", "Actor">>
      [] cls = "Activity" -> <<"Create">>
      [] cls = "Actor" -> <<"Person">>
      [] cls = "Collection" -> <<"OrderedCollection", "CollectionPage">>
      [] cls = "OrderedCollection" -> <<"OrderedCollectionPage">>
      [] cls = "CollectionPage" -> <<"OrderedCollectionPage">>
      [] OTHER -> <<>>

\* The first loop of collect_entity_types: a subclass is registered under
\* its __uri__ unless that URI is registered already.
RECURSIVE RegisterAll(_, _)
RegisterAll(subclasses, registry) ==
    IF subclasses = <<>> THEN registry
    ELSE RegisterAll(Tail(subclasses),
            IF TypeUri(Head(subclasses)) \in DOMAIN registry THEN registry
            ELSE registry @@ (TypeUri(Head(subclasses)) :> Head(subclasses)))

RECURSIVE CollectBelow(_, _)

\* A collection that registers the direct subclasses and goes no deeper.
collect_direct_subclasses(cls, registry) ==
    RegisterAll(Subclasses(cls), registry)

\* collect_entity_types(cls): register the direct subclasses, then collect
\* below each of them.
RECURSIVE collect_entity_types(_, _)
collect_entity_types(cls, registry) ==
    CollectBelow(Subclasses(cls), RegisterAll(Subclasses(cls), registry))
CollectBelow(subclasses, registry) ==
    IF subclasses = <<>> THEN registry
    ELSE CollectBelow(Tail(subclasses),
                      collect_entity_types(Head(subclasses), registry))

\* if not entity_types: collect_entity_types(Entity)
Collected(registry) ==
    IF DOMAIN registry = {} THEN collect_entity_types("Entity", registry)
    ELSE registry

\* entity_types.get(type_uri)
RegistryGet(registry, type_uri) ==
    IF type_uri \in DOMAIN registry THEN PyStr(registry[type_uri]) ELSE None

\* get_descriptors(cls) on the cache: the cached entry, computed and stored
\* when there is none.
DescriptorsWith(cache, cls) ==
    IF cls \in DOMAIN cache THEN cache
    ELSE cache @@ (cls :> get_descriptors(cls))

\* uri_props.setdefault(prop.uri, {})[name] = prop, for every descriptor
UriProps(props) ==
    [uri \in {props[i].uri : i \in DOMAIN props} |->
        SelectSeq(props, LAMBDA d : d.uri = uri)]

\* get_uri_descriptors(cls) on the cache, which calls get_descriptors(cls)
\* when it has no entry.
UriDescriptorsWith(cache, props, cls) ==
    IF cls \in DOMAIN cache THEN cache
    ELSE cache @@ (cls :> UriProps(props[cls]))

\* The type URIs of the documents the tasks parse.
UnknownUri == "https://example.com/ns#Unknown"
LookupUris == {AS("Note"), AS("Person"), AS("Create"), UnknownUri}

\* A task calls Entity.__from_jsonld__ on a document of the type and is
\* suspended at the await of jsonld.expand.
StartParse(t, type_uri) ==
    /\ tasks[t].pc = "idle"
    /\ tasks' = [tasks EXCEPT ![t] = [pc |-> "expand", uri |-> type_uri]]
    /\ UNCHANGED <<entity_types, descriptors, uri_descriptors>>
    /\ UNCHANGED <<serverVars, entityVars, pairVars, loadVars>>

\* The task resumes with the expanded document and calls get_entity_type:
\* no class fails the parse with ValueError, a class is parsed as, which
\* suspends the task at the await of the second jsonld.expand.
LookupType(t) ==
    /\ tasks[t].pc = "expand"
    /\ entity_types' = Collected(entity_types)
    /\ tasks' =
        [tasks EXCEPT ![t] =
            IF IsNone(RegistryGet(entity_types', tasks[t].uri))
            THEN [pc |-> "failed", uri |-> tasks[t].uri]
            ELSE [pc |-> "expand_as", uri |-> tasks[t].uri,
                  cls |-> RegistryGet(entity_types', tasks[t].uri).s]]
    /\ UNCHANGED <<descriptors, uri_descriptors>>
    /\ UNCHANGED <<serverVars, entityVars, pairVars, loadVars>>

\* The task resumes in the class's __from_jsonld__ and calls
\* get_uri_descriptors(cls), which it keeps for the rest of the parse.
ParseAs(t) ==
    /\ tasks[t].pc = "expand_as"
    /\ descriptors' =
        IF tasks[t].cls \in DOMAIN uri_descriptors THEN descriptors
        ELSE DescriptorsWith(descriptors, tasks[t].cls)
    /\ uri_descriptors' =
        UriDescriptorsWith(uri_descriptors, descriptors', tasks[t].cls)
    /\ tasks' = [tasks EXCEPT ![t] =
                    [pc |-> "parsed", uri |-> tasks[t].uri,
                     cls |-> tasks[t].cls,
                     uri_props |-> uri_descriptors'[tasks[t].cls]]]
    /\ UNCHANGED entity_types
    /\ UNCHANGED <<serverVars, entityVars, pairVars, loadVars>>

\* An idle task calls get_descriptors(cls), as load_entity_refs does first.
GetDescriptors(t, cls) ==
    /\ tasks[t].pc = "idle"
    /\ descriptors' = DescriptorsWith(descriptors, cls)
    /\ UNCHANGED <<entity_types, uri_descriptors, tasks>>
    /\ UNCHANGED <<serverVars, entityVars, pairVars, loadVars>>

\* The parse of the task returned or raised.
Return(t) ==
    /\ tasks[t].pc \in {"failed", "parsed"}
    /\ tasks' = [tasks EXCEPT ![t] = Idle]
    /\ UNCHANGED <<entity_types, descriptors, uri_descriptors>>
    /\ UNCHANGED <<serverVars, entityVars, pairVars, loadVars>>

\* Tasks of one event loop: a task runs from one await to the next before
\* another task runs.
NextLazy ==
    \/ \E t \in Tasks, type_uri \in LookupUris : StartParse(t, type_uri)
    \/ \E t \in Tasks : LookupType(t)
    \/ \E t \in Tasks : ParseAs(t)
    \/ \E t \in Tasks, cls \in {"Note", "Person"} : GetDescriptors(t, cls)
    \/ \E t \in Tasks : Return(t)

SpecLazy == InitEntity /\ [][NextLazy]_vars

----------------------------------------------------------------------------
(* fedikit.federation.server: the registry, the route map, the requests *)

MaxRules == 3

Host == "fedikit.test"
HandleArg == "<handle>"

\* Rule(path, endpoint=endpoint); a path is its sequence of segments.
Rule(path, endpoint) == [rule |-> path, endpoint |-> endpoint]

WebfingerPath == <<".well-known", "webfinger">>
ActorPaths == {<<"actors", HandleArg>>, <<"users", HandleArg>>}
OutboxPaths == {<<"actors", HandleArg, "outbox">>}

\* Server.__init__
NewServer ==
    [map |-> <<Rule(WebfingerPath, "webfinger")>>,
     actor_dispatcher |-> None,
     outbox_dispatcher |-> None,
     outbox_counter |-> None,
     outbox_first_cursor |-> None,
     outbox_last_cursor |-> None]

\* A registered user callable, by name.
Callable(name) == [fn |-> name]

\* A rule matches a path of as many segments whose fixed segments agree.
RuleMatches(rule, path) ==
    /\ Len(rule.rule) = Len(path)
    /\ \A i \in DOMAIN path :
            rule.rule[i] = HandleArg \/ rule.rule[i] = path[i]

\* The value the path gives the rule's <handle> argument.
RuleArgs(rule, path) ==
    LET at == {i \in DOMAIN path : rule.rule[i] = HandleArg}
    IN IF at = {} THEN EmptyMap
       ELSE "handle" :> path[CHOOSE i \in at : TRUE]

\* MapAdapter.match(): the endpoint and arguments of the first rule that
\* matches, or NotFound.
RECURSIVE MapMatch(_, _)
MapMatch(rules, path) ==
    IF rules = <<>> THEN Raise("NotFound")
    ELSE IF RuleMatches(Head(rules), path)
         THEN Ok([endpoint |-> Head(rules).endpoint,
                  args |-> RuleArgs(Head(rules), path)])
    ELSE MapMatch(Tail(rules), path)

RECURSIVE JoinPath(_, _)
JoinPath(path, handle) ==
    IF path = <<>> THEN ""
    ELSE "/" \o (IF Head(path) = HandleArg THEN handle ELSE Head(path))
             \o JoinPath(Tail(path), handle)

\* MapAdapter.build(endpoint, {"handle": handle}, force_external=True): the
\* URL of the first rule added for the endpoint.
MapBuild(rules, scheme, endpoint, handle) ==
    LET forEndpoint == SelectSeq(rules, LAMBDA r : r.endpoint = endpoint)
    IN IF forEndpoint = <<>> THEN Raise("BuildError")
       ELSE Ok(scheme \o "://" \o Host \o
               JoinPath(Head(forEndpoint).rule, handle))

\* Context.actor_uri(handle), Context.outbox_uri(handle)
actor_uri(srv, scope, handle) == MapBuild(srv.map, scope.scheme, "actor", handle)
outbox_uri(srv, scope, handle) ==
    MapBuild(srv.map, scope.scheme, "outbox", handle)

\* A media range of an Accept header.
Media(type, subtype) == [type |-> type, subtype |-> subtype]

\* A containment test that compares the type and ignores the subtype.
AcceptContainsByType(accept, value) ==
    \E item \in accept : item.type \in {"*", value.type}

\* MIMEAccept.__contains__: a listed range matches the value when it is the
\* value itself, */*, or the value's type with a * subtype.
AcceptContains(accept, value) ==
    \E item \in accept :
        \/ item.type = "*"
        \/ /\ item.type = value.type
           /\ item.subtype = "*" \/ item.subtype = value.subtype

\* The negotiation of ServerAsgi.__call__: an empty Accept header, or one
\* containing one of the three JSON media types.
Acceptable(accept) ==
    \/ Cardinality(accept) < 1
    \/ AcceptContains(accept, Media("application", "ld+json"))
    \/ AcceptContains(accept, Media("application", "activity+json"))
    \/ AcceptContains(accept, Media("application", "json"))

\* re.match(r"^acct:([^@]+)@" + re.escape(host) + r"$", resource) over the
\* resource's tokens: "acct:", one or more tokens other than "@", "@", the
\* host, and the end of the string or a newline that ends it.  The result
\* is the captured group, or None.
ReMatch(host, resource) ==
    LET ats == {i \in DOMAIN resource : resource[i] = "@"}
        firstAt == CHOOSE i \in ats : \A j \in ats : i <= j
        tail == SubSeq(resource, firstAt + 1, Len(resource))
    IN IF /\ resource # <<>>
          /\ Head(resource) = "acct:"
          /\ ats # {}
          /\ firstAt > 2
          /\ tail = <<host>> \/ tail = <<host, "\n">>
       THEN [group |-> SubSeq(resource, 2, firstAt - 1)]
       ELSE None

RECURSIVE StrJoin(_)
StrJoin(tokens) ==
    IF tokens = <<>> THEN "" ELSE Head(tokens) \o StrJoin(Tail(tokens))

\* urllib.parse.quote(cursor)
quote(cursor) == IF cursor = "a b" THEN "a%20b" ELSE cursor

----------------------------------------------------------------------------
(* The application's callables, as the handlers see them *)

Profile == "https://example.com/@"

\* The actor dispatcher: alice has no url, bob's url is a string, carol's
\* is a Link and she is attributed by reference; nobody else exists.
dispatch_actor(srv, scope, handle) ==
    LET uri == actor_uri(srv, scope, handle)
        id == [name |-> "id", value |-> PyStr(uri.ok)]
        username == [name |-> "preferred_username", value |-> PyStr(handle)]
        page == EntityInit("Link",
                    <<[name |-> "href", value |-> PyStr(Profile \o handle)],
                      [name |-> "rel", value |-> PyStr("me")],
                      [name |-> "media_type", value |-> PyStr("text/html")]>>,
                    EmptyMap).ok
    IN CASE handle = "alice" ->
                EntityInit("Person", <<id, username>>, EmptyMap).ok
         [] handle = "bob" ->
                EntityInit("Person",
                    <<id, username,
                      [name |-> "url", value |-> PyStr(Profile \o handle)]>>,
                    EmptyMap).ok
         [] handle = "carol" ->
                EntityInit("Person",
                    <<id, username, [name |-> "url", value |-> page],
                      [name |-> "attributed_to",
                       value |-> EntityRef(Alice)]>>,
                    EmptyMap).ok
         [] OTHER -> None

Known == {"alice", "bob", "carol"}

\* Page(prev_cursor, next_cursor, items)
Page(prev_cursor, next_cursor, items) ==
    [prev_cursor |-> prev_cursor, next_cursor |-> next_cursor,
     items |-> items]

\* One activity of an outbox: Create(actor=EntityRef(...), object=Note(...))
Activity1 ==
    EntityInit("Create",
        <<[name |-> "actor", value |-> EntityRef(Alice)],
          [name |-> "object",
           value |-> EntityInit("Note",
                        <<[name |-> "name", value |-> PyStr("hi")]>>,
                        EmptyMap).ok]>>,
        EmptyMap).ok

\* The outbox dispatcher: one page per known handle; it follows "0" with
\* "a b", and "a b" is the last page.
dispatch_outbox(handle, cursor) ==
    IF handle \notin Known THEN None
    ELSE IF IsNone(cursor) THEN Page(None, None, <<Activity1>>)
    ELSE IF cursor.s = "0" THEN Page(None, PyStr("a b"), <<Activity1>>)
    ELSE Page(PyStr("0"), None, <<>>)

\* The outbox counter, and the cursor suppliers: only bob's outbox is paged.
count_outbox(handle) ==
    IF handle \in Known THEN PyInt(1) ELSE None
outbox_first_cursor(handle) ==
    IF handle = "bob" THEN PyStr("0") ELSE None
outbox_last_cursor(handle) ==
    IF handle = "bob" THEN PyStr("a b") ELSE None

\* A call of a user callable, as recorded in the outcome.
Call(fn, handle, cursor) == [fn |-> fn, handle |-> handle, cursor |-> cursor]
NoCursor == [nocursor |-> TRUE]

\* The outcome of handling a request: the hook invoked (if any), the user
\* callables called, the ASGI messages sent and the exception that escaped.
Outcome(hook, calls, sent, raised) ==
    [hook |-> hook, calls |-> calls, sent |-> sent, raised |-> raised]

ResponseStart(status, content_type) ==
    [type |-> "http.response.start", status |-> status,
     content_type |-> content_type]
ResponseBody(body) ==
    [type |-> "http.response.body", body |-> body, more_body |-> FALSE]
Text(t) == [text |-> t]
Json(j) == [json |-> j]

\* The default hooks of Server.asgi().
non_http(calls) == Outcome("on_non_http", calls, <<>>, "NotImplementedError")

\* A 404 that the adapter writes itself instead of calling the hook.
not_found_written(calls) ==
    Outcome("none", calls,
            <<ResponseStart(404, "text/plain"),
              ResponseBody(Text("Not Found"))>>, "none")

not_found(calls) ==
    Outcome("on_not_found", calls,
            <<ResponseStart(404, "text/plain"),
              ResponseBody(Text("Not Found"))>>, "none")
not_acceptable(calls) ==
    Outcome("on_not_acceptable", calls,
            <<ResponseStart(406, "text/plain"),
              ResponseBody(Text("Not Acceptable"))>>, "none")

Raised(calls, exception) == Outcome("none", calls, <<>>, exception)

LdJson ==
    "application/ld+json; profile=\"https://www.w3.org/ns/activitystreams\""

----------------------------------------------------------------------------
(* ServerAsgi: the request handlers *)

\* What a user callable does instead of answering, for the handles that
\* make it fail: it raises, or the request is cancelled while it is awaited.
Raises(fn, handle) ==
    IF handle = "raise-" \o fn THEN Raise("RuntimeError")
    ELSE IF handle = "cancel-" \o fn THEN Raise("CancelledError")
    ELSE None

\* The handles that make one of the user callables fail.
Failing ==
    {kind \o fn :
        kind \in {"raise-", "cancel-"},
        fn \in {"actor_dispatcher", "outbox_dispatcher", "outbox_counter",
                "outbox_first_cursor", "outbox_last_cursor"}}

\* A method that calls the user callable again when the call failed.
DispatchedAgain(handler, result, call) ==
    IF IsNone(handler) THEN [result |-> None, calls |-> <<>>]
    ELSE IF IsErr(Raises(call.fn, call.handle))
    THEN [result |-> Raises(call.fn, call.handle), calls |-> <<call, call>>]
    ELSE [result |-> result, calls |-> <<call>>]

\* The result of a Server.dispatch_* / count_* / get_* method together with
\* the call of the user callable it made, if one is registered; a failure
\* of the callable is the failure of the method.
Dispatched(handler, result, call) ==
    IF IsNone(handler) THEN [result |-> None, calls |-> <<>>]
    ELSE IF IsErr(Raises(call.fn, call.handle))
    THEN [result |-> Raises(call.fn, call.handle), calls |-> <<call>>]
    ELSE [result |-> result, calls |-> <<call>>]

\* Server.dispatch_actor(context, handle)
Server_dispatch_actor(srv, scope, handle) ==
    Dispatched(srv.actor_dispatcher, dispatch_actor(srv, scope, handle),
               Call("actor_dispatcher", handle, NoCursor))

\* Server.dispatch_outbox(context, handle, cursor)
Server_dispatch_outbox(srv, scope, handle, cursor) ==
    Dispatched(srv.outbox_dispatcher,
               dispatch_outbox(handle, cursor),
               Call("outbox_dispatcher", handle, cursor))

\* Server.count_outbox, get_outbox_first_cursor, get_outbox_last_cursor
Server_count_outbox(srv, handle) ==
    Dispatched(srv.outbox_counter, count_outbox(handle),
               Call("outbox_counter", handle, NoCursor))
get_outbox_first_cursor(srv, handle) ==
    Dispatched(srv.outbox_first_cursor, outbox_first_cursor(handle),
               Call("outbox_first_cursor", handle, NoCursor))
get_outbox_last_cursor(srv, handle) ==
    Dispatched(srv.outbox_last_cursor, outbox_last_cursor(handle),
               Call("outbox_last_cursor", handle, NoCursor))

\* webfinger.jrd.Link(rel, href, type).to_json(): unset parts are left out.
JrdLink(rel, href, type) ==
    ("rel" :> rel) @@
    (IF IsNone(type) THEN EmptyMap ELSE "type" :> type.s) @@
    (IF IsNone(href) THEN EmptyMap ELSE "href" :> href.s)

\* url.rel or "http://webfinger.net/rel/profile-page"
RelOr(rel) ==
    IF IsNone(rel) \/ rel.s = "" THEN "http://webfinger.net/rel/profile-page"
    ELSE rel.s

\* The JRD link of one of the actor's urls: a vocabulary Link gives its rel,
\* href and media type (each read may raise), a string is a profile page.
UrlLink(url) ==
    IF IsEntity(url) /\ IsSubclass(url.cls, "Link")
    THEN LET rel == GetProperty(url, "rel")
             href == GetProperty(url, "href")
             media_type == GetProperty(url, "media_type")
         IN IF IsErr(rel) THEN rel
            ELSE IF IsErr(href) THEN href
            ELSE IF IsErr(media_type) THEN media_type
            ELSE Ok(JrdLink(RelOr(rel.ok), href.ok, media_type.ok))
    ELSE Ok(JrdLink("http://webfinger.net/rel/profile-page", url,
                    PyStr("application/activity+json")))

\* ResourceDescriptor(subject, aliases, links).to_json()
ResourceDescriptor(subject, aliases, links) ==
    [subject |-> subject, aliases |-> aliases, links |-> links]

\* The JRD response of _webfinger_asgi for a dispatched actor d: the self
\* link, one link per url of the actor, the descriptor.
WebfingerJrd(srv, scope, handle, d) ==
    LET actor == d.result
        self == JrdLink("self", PyStr(actor_uri(srv, scope, handle).ok),
                        PyStr("application/activity+json"))
        urls == GetProperty(actor, "urls")
        more == [i \in DOMAIN urls.ok |-> UrlLink(urls.ok[i])]
    IN IF IsErr(d.result) THEN Raised(d.calls, d.result.err)
       ELSE IF IsNone(actor) THEN not_found(d.calls)
       ELSE IF IsErr(urls) THEN Raised(d.calls, urls.err)
       ELSE IF IsErr(FirstErr(more)) THEN Raised(d.calls, FirstErr(more).err)
       ELSE Outcome("none", d.calls,
                <<ResponseStart(200, "application/jrd+json"),
                  ResponseBody(Json(ResourceDescriptor(
                    StrJoin(scope.resource.tokens),
                    <<actor_uri(srv, scope, handle).ok>>,
                    <<self>> \o [i \in DOMAIN more |-> more[i].ok])))>>,
                "none")

\* The 400 response of _webfinger_asgi.
MissingResource ==
    Outcome("none", <<>>,
            <<ResponseStart(400, "text/plain"),
              ResponseBody(Text("Missing resource parameter"))>>,
            "none")

\* _webfinger_asgi from the regular expression on: no match is not found,
\* a match dispatches the captured handle.
WebfingerLookup(srv, scope) ==
    LET match == ReMatch(Host, scope.resource.tokens)
    IN IF IsNone(match) THEN not_found(<<>>)
       ELSE Only({WebfingerJrd(srv, scope, StrJoin(match.group), d) :
                    d \in {Server_dispatch_actor(srv, scope,
                                StrJoin(match.group))}})

\* A WebFinger handler that looks at the resource before the dispatcher.
webfinger_asgi_resource_first(srv, scope) ==
    IF IsNone(scope.resource) THEN MissingResource
    ELSE IF IsNone(srv.actor_dispatcher) THEN not_found(<<>>)
    ELSE WebfingerLookup(srv, scope)

\* A WebFinger handler that answers a missing resource as not found.
webfinger_asgi_no_400(srv, scope) ==
    IF IsNone(srv.actor_dispatcher) \/ IsNone(scope.resource)
    THEN not_found(<<>>)
    ELSE WebfingerLookup(srv, scope)

\* ServerAsgi._webfinger_asgi
webfinger_asgi(srv, scope) ==
    IF IsNone(srv.actor_dispatcher) THEN not_found(<<>>)
    ELSE IF IsNone(scope.resource) THEN MissingResource
    ELSE WebfingerLookup(srv, scope)

\* A response that sends the document in two bodies.
LdJsonResponseTwice(calls, doc) ==
    IF IsErr(doc) THEN Raised(calls, doc.err)
    ELSE Outcome("none", calls,
                 <<ResponseStart(200, LdJson), ResponseBody(Json(doc.ok)),
                   ResponseBody(Json(doc.ok))>>,
                 "none")

\* The 200 response carrying a JSON-LD document, or the exception that
\* serializing it raised.
LdJsonResponse(calls, doc) ==
    IF IsErr(doc) THEN Raised(calls, doc.err)
    ELSE Outcome("none", calls,
                 <<ResponseStart(200, LdJson), ResponseBody(Json(doc.ok))>>,
                 "none")

\* doc = await jsonld(entity), then the response
Respond(calls, value) ==
    Only({LdJsonResponse(calls, doc) : doc \in {jsonld(value, FALSE)}})

\* ServerAsgi._actor_asgi
actor_asgi(srv, scope, args) ==
    Only({IF IsErr(d.result) THEN Raised(d.calls, d.result.err)
          ELSE IF IsNone(d.result) THEN not_found(d.calls)
          ELSE Respond(d.calls, d.result) :
            d \in {Server_dispatch_actor(srv, scope, args["handle"])}})

\* EntityRef(f"{context.outbox_uri(handle)}?cursor={quote(cursor)}"), or
\* None for no cursor
CursorRef(srv, scope, handle, cursor) ==
    IF IsNone(cursor) THEN None
    ELSE EntityRef(outbox_uri(srv, scope, handle).ok \o "?cursor=" \o
                   quote(cursor.s))

\* The collection _outbox_asgi constructs, then the response.
RespondCollection(calls, cls, kwargs) ==
    Only({IF IsErr(collection) THEN Raised(calls, collection.err)
          ELSE Respond(calls, collection.ok) :
            collection \in {EntityInit(cls, kwargs, EmptyMap)}})

\* _outbox_asgi once the suppliers, the counter and the dispatcher have
\* answered; the dispatcher's call counts only on the paths that make it,
\* and a failed await ends the handler with the calls made so far.
OutboxRespond(srv, scope, handle, first, last, total, page) ==
    LET before == first.calls \o last.calls \o total.calls
    IN IF IsNone(scope.cursor)
       THEN IF IsErr(first.result)
            THEN Raised(first.calls, first.result.err)
            ELSE IF IsErr(last.result)
            THEN Raised(first.calls \o last.calls, last.result.err)
            ELSE IF IsErr(total.result)
            THEN Raised(before, total.result.err)
            ELSE IF IsNone(first.result)
            THEN IF IsErr(page.result)
                 THEN Raised(before \o page.calls, page.result.err)
                 ELSE IF IsNone(page.result)
                 THEN not_found(before \o page.calls)
                 ELSE RespondCollection(before \o page.calls,
                        "OrderedCollection",
                        <<[name |-> "total_items",
                           value |-> total.result],
                          [name |-> "ordered_items",
                           value |-> page.result.items]>>)
            ELSE RespondCollection(before, "OrderedCollection",
                    <<[name |-> "total_items", value |-> total.result],
                      [name |-> "first",
                       value |-> CursorRef(srv, scope, handle,
                                           first.result)],
                      [name |-> "last",
                       value |-> CursorRef(srv, scope, handle,
                                           last.result)]>>)
       ELSE IF IsErr(page.result)
            THEN Raised(page.calls, page.result.err)
            ELSE IF IsNone(page.result) THEN not_found(page.calls)
            ELSE RespondCollection(page.calls, "OrderedCollectionPage",
                    <<[name |-> "prev",
                       value |-> CursorRef(srv, scope, handle,
                                           page.result.prev_cursor)],
                      [name |-> "next",
                       value |-> CursorRef(srv, scope, handle,
                                           page.result.next_cursor)],
                      [name |-> "ordered_items",
                       value |-> page.result.items]>>)

\* ServerAsgi._outbox_asgi
outbox_asgi(srv, scope, args) ==
    Only({OutboxRespond(srv, scope, args["handle"], first_cursor,
                        last_cursor, total_items, page) :
            first_cursor \in {get_outbox_first_cursor(srv, args["handle"])},
            last_cursor \in {get_outbox_last_cursor(srv, args["handle"])},
            total_items \in {Server_count_outbox(srv, args["handle"])},
            page \in {Server_dispatch_outbox(srv, scope, args["handle"],
                                             scope.cursor)}})

\* ServerAsgi.__call__(scope, receive, send)
ServerAsgi(srv, scope) ==
    IF scope.type # "http" THEN non_http(<<>>)
    ELSE LET matched == MapMatch(srv.map, scope.path)
         IN IF IsErr(matched) THEN not_found(<<>>)
            ELSE IF ~Acceptable(scope.accept) THEN not_acceptable(<<>>)
            ELSE CASE matched.ok.endpoint = "webfinger" ->
                        webfinger_asgi(srv, scope)
                   [] matched.ok.endpoint = "actor" ->
                        actor_asgi(srv, scope, matched.ok.args)
                   [] matched.ok.endpoint = "outbox" ->
                        outbox_asgi(srv, scope, matched.ok.args)
                   [] OTHER -> not_found(<<>>)

----------------------------------------------------------------------------
(* The requests a client may send *)

Scope(type, scheme, path, accept, resource, cursor) ==
    [type |-> type, scheme |-> scheme, path |-> path, accept |-> accept,
     resource |-> resource, cursor |-> cursor]

Accepts ==
    {{}, {Media("application", "activity+json")}, {Media("text", "html")},
     {Media("*", "*")}, {Media("application", "*")},
     {Media("application", "xml")},
     {Media("text", "html"), Media("application", "json")}}

Resource(tokens) == [tokens |-> tokens]

Resources ==
    {None} \cup
    {Resource(<<"acct:", h, "@", Host>>) : h \in Known \cup {"nobody"}} \cup
    {Resource(<<"acct:", "bob", "@", Host, "\n">>),
     Resource(<<"acct:", "alice", "@", "other.host">>),
     Resource(<<"acct:", "alice", "@", "bob", "@", Host>>),
     Resource(<<"http://", Host, "/actors/alice">>)}

Requests ==
    {Scope("http", scheme, WebfingerPath, accept, resource, None) :
        scheme \in {"http", "https"}, accept \in Accepts,
        resource \in Resources}
    \cup
    {Scope("http", "http", <<prefix, h>>, accept, None, None) :
        prefix \in {"actors", "users"}, h \in Known \cup {"nobody"},
        accept \in Accepts}
    \cup
    {Scope("http", "http", <<"actors", h, "outbox">>, accept, None, cursor) :
        h \in {"alice", "bob", "nobody"}, accept \in Accepts,
        cursor \in {None, PyStr("0"), PyStr("a b")}}
    \cup
    {Scope("http", "http", <<"actors", h>>, {}, None, None) : h \in Failing}
    \cup
    {Scope("http", "http", <<"actors", h, "outbox">>, {}, None, cursor) :
        h \in Failing, cursor \in {None, PyStr("0")}}
    \cup
    {Scope("http", "http", WebfingerPath, {},
           Resource(<<"acct:", h, "@", Host>>), None) : h \in Failing}
    \cup
    {Scope(type, "http", <<"about">>, accept, None, None) :
        type \in {"http", "lifespan"}, accept \in Accepts}

----------------------------------------------------------------------------
(* The server as a state machine: registration and request handling *)

\* A registration that sets the handle and leaves the route map alone.
RegisteredHandleOnly(self, method, path) ==
    CASE method = "actor_dispatcher" ->
            [self EXCEPT !.actor_dispatcher = Callable("dispatch_actor")]
      [] method = "outbox_dispatcher" ->
            [self EXCEPT !.outbox_dispatcher = Callable("dispatch_outbox")]
      [] method = "outbox_counter" ->
            [self EXCEPT !.outbox_counter = Callable("count_outbox")]
      [] method = "outbox_first_cursor" ->
            [self EXCEPT
                !.outbox_first_cursor = Callable("outbox_first_cursor")]
      [] method = "outbox_last_cursor" ->
            [self EXCEPT
                !.outbox_last_cursor = Callable("outbox_last_cursor")]

\* What a registering method does to the server it is called on: it sets
\* the handle, and a dispatcher's decorator adds its rule to the map.
Registered(self, method, path) ==
    CASE method = "actor_dispatcher" ->
            [self EXCEPT !.actor_dispatcher = Callable("dispatch_actor"),
                         !.map = Append(@, Rule(path, "actor"))]
      [] method = "outbox_dispatcher" ->
            [self EXCEPT !.outbox_dispatcher = Callable("dispatch_outbox"),
                         !.map = Append(@, Rule(path, "outbox"))]
      [] method = "outbox_counter" ->
            [self EXCEPT !.outbox_counter = Callable("count_outbox")]
      [] method = "outbox_first_cursor" ->
            [self EXCEPT
                !.outbox_first_cursor = Callable("outbox_first_cursor")]
      [] method = "outbox_last_cursor" ->
            [self EXCEPT
                !.outbox_last_cursor = Callable("outbox_last_cursor")]

\* A clone that keeps the original's Map object instead of copying its
\* rules into a new one.
clone_shared_map(self) == [server |-> self, own_map |-> FALSE]

\* Server.clone(): a new server whose Map is a new object holding an
\* unbound copy of each rule, with the same five handles.
clone(self) ==
    [server |->
        [NewServer EXCEPT
            !.map = [i \in DOMAIN self.map |->
                        Rule(self.map[i].rule, self.map[i].endpoint)],
            !.actor_dispatcher = self.actor_dispatcher,
            !.outbox_dispatcher = self.outbox_dispatcher,
            !.outbox_counter = self.outbox_counter,
            !.outbox_first_cursor = self.outbox_first_cursor,
            !.outbox_last_cursor = self.outbox_last_cursor],
     own_map |-> TRUE]

\* The clone as the original server sees it after its own map became
\* `map`: a Map object held by both servers shows a rule added through
\* either of them.
SeenFromServer(other, map) ==
    IF IsNone(other) \/ other.own_map THEN other
    ELSE [other EXCEPT !.server.map = map]

\* The original as the clone sees it, likewise.
SeenFromClone(self, other) ==
    IF other.own_map THEN self ELSE [self EXCEPT !.map = other.server.map]

\* @server.actor_dispatcher(path)
actor_dispatcher(path) ==
    /\ Len(server.map) < MaxRules
    /\ server' = Registered(server, "actor_dispatcher", path)
    /\ server2' = SeenFromServer(server2, server'.map)
    /\ request' = None /\ outcome' = None
    /\ UNCHANGED <<entityVars, pairVars, loadVars, lazyVars>>

\* @server.outbox_dispatcher(path)
outbox_dispatcher(path) ==
    /\ Len(server.map) < MaxRules
    /\ server' = Registered(server, "outbox_dispatcher", path)
    /\ server2' = SeenFromServer(server2, server'.map)
    /\ request' = None /\ outcome' = None
    /\ UNCHANGED <<entityVars, pairVars, loadVars, lazyVars>>

\* @server.outbox_counter
outbox_counter ==
    /\ server' = Registered(server, "outbox_counter", <<>>)
    /\ request' = None /\ outcome' = None
    /\ UNCHANGED server2
    /\ UNCHANGED <<entityVars, pairVars, loadVars, lazyVars>>

\* @server.outbox_first_cursor
RegisterFirstCursor ==
    /\ server' = Registered(server, "outbox_first_cursor", <<>>)
    /\ request' = None /\ outcome' = None
    /\ UNCHANGED server2
    /\ UNCHANGED <<entityVars, pairVars, loadVars, lazyVars>>

\* @server.outbox_last_cursor
RegisterLastCursor ==
    /\ server' = Registered(server, "outbox_last_cursor", <<>>)
    /\ request' = None /\ outcome' = None
    /\ UNCHANGED server2
    /\ UNCHANGED <<entityVars, pairVars, loadVars, lazyVars>>

\* await server.asgi(data)(scope, receive, send), one request at a time
HandleRequest(scope) ==
    /\ request = None
    /\ request' = scope
    /\ outcome' = ServerAsgi(server, scope)
    /\ UNCHANGED <<server, server2>>
    /\ UNCHANGED <<entityVars, pairVars, loadVars, lazyVars>>

\* The client has received the response.
Complete ==
    /\ request # None
    /\ request' = None /\ outcome' = None
    /\ UNCHANGED <<server, server2>>
    /\ UNCHANGED <<entityVars, pairVars, loadVars, lazyVars>>

Init ==
    /\ server = NewServer /\ request = None /\ outcome = None
    /\ server2 = None
    /\ EntityInit0 /\ PairInit0 /\ LoadInit0 /\ LazyInit0

Next ==
    \/ \E path \in ActorPaths : actor_dispatcher(path)
    \/ \E path \in OutboxPaths : outbox_dispatcher(path)
    \/ outbox_counter
    \/ RegisterFirstCursor
    \/ RegisterLastCursor
    \/ \E scope \in Requests : HandleRequest(scope)
    \/ Complete

Spec == Init /\ [][Next]_vars

\* server2 = server.clone()
Clone ==
    /\ IsNone(server2)
    /\ server2' = clone(server)
    /\ request' = None /\ outcome' = None
    /\ UNCHANGED server
    /\ UNCHANGED <<entityVars, pairVars, loadVars, lazyVars>>

\* The methods a registration may call and the path it gives a dispatcher.
Registrations ==
    {<<"actor_dispatcher", path>> : path \in ActorPaths} \cup
    {<<"outbox_dispatcher", path>> : path \in OutboxPaths} \cup
    {<<method, <<>>>> : method \in {"outbox_counter", "outbox_first_cursor",
                                     "outbox_last_cursor"}}

\* A registration on the clone: @server2.<method>
RegisterOnClone(method, path) ==
    /\ ~IsNone(server2)
    /\ path # <<>> => Len(server2.server.map) < MaxRules
    /\ server2' = [server2 EXCEPT
                        !.server = Registered(@, method, path)]
    /\ server' = SeenFromClone(server, server2')
    /\ request' = None /\ outcome' = None
    /\ UNCHANGED <<entityVars, pairVars, loadVars, lazyVars>>

\* Registrations on a server and on its clone, in any order.
NextClone ==
    \/ \E path \in ActorPaths : actor_dispatcher(path)
    \/ \E path \in OutboxPaths : outbox_dispatcher(path)
    \/ outbox_counter
    \/ RegisterFirstCursor
    \/ RegisterLastCursor
    \/ Clone
    \/ \E r \in Registrations : RegisterOnClone(r[1], r[2])

SpecClone == Init /\ [][NextClone]_vars

\* await server2.asgi(data)(scope, receive, send)
HandleRequestOnClone(scope) ==
    /\ ~IsNone(server2)
    /\ request = None
    /\ request' = scope
    /\ outcome' = ServerAsgi(server2.server, scope)
    /\ UNCHANGED <<server, server2>>
    /\ UNCHANGED <<entityVars, pairVars, loadVars, lazyVars>>

\* The requests sent to a server while it and its clone are being set up.
ServedRequests ==
    {scope \in Requests :
        /\ scope.accept = {}
        /\ scope.scheme = "http"
        /\ scope.cursor = None
        /\ \A i \in DOMAIN scope.path :
                scope.path[i] \notin {"bob", "carol"} \cup Failing
        /\ scope.resource \in {None, Resource(<<"acct:", "alice", "@", Host>>)}}

\* Construction, registrations, clone and requests, in any order.
NextServe ==
    \/ \E path \in ActorPaths : actor_dispatcher(path)
    \/ \E path \in OutboxPaths : outbox_dispatcher(path)
    \/ outbox_counter
    \/ RegisterFirstCursor
    \/ RegisterLastCursor
    \/ Clone
    \/ \E r \in Registrations : RegisterOnClone(r[1], r[2])
    \/ \E scope \in ServedRequests : HandleRequest(scope)
    \/ \E scope \in ServedRequests : HandleRequestOnClone(scope)
    \/ Complete

SpecServe == Init /\ [][NextServe]_vars

----------------------------------------------------------------------------
(* Properties of the request adapter *)

\* An HTTP request has been handled and its outcome is on record.
Handled == request # None /\ request.type = "http"

\* The request's path matches a rule of the given endpoint.
Routed(endpoint) ==
    /\ IsOk(MapMatch(server.map, request.path))
    /\ MapMatch(server.map, request.path).ok.endpoint = endpoint

RoutedHandle == MapMatch(server.map, request.path).ok.args["handle"]

\* The response started with the given status.
Started(status) == outcome.sent # <<>> /\ outcome.sent[1].status = status

\* The response is exactly a start with the status and content type and one
\* body.
Answered(status, content_type, body) ==
    outcome.sent = <<ResponseStart(status, content_type), ResponseBody(body)>>

JsonTypes ==
    {Media("application", "ld+json"), Media("application", "activity+json"),
     Media("application", "json")}

\* The Accept header is non-empty and lists none of the three JSON types.
ListsNoJson == request.accept # {} /\ request.accept \cap JsonTypes = {}

\* No media range of the Accept header matches one of the three JSON types,
\* exactly or by a wildcard.
MatchesNoJson ==
    \A item \in request.accept : \A json \in JsonTypes :
        /\ item.type # "*"
        /\ ~(item.type = json.type /\ item.subtype \in {"*", json.subtype})

C2_NoDispatcherAlways404 ==
    (Handled /\ IsNone(server.actor_dispatcher) /\ Routed("webfinger")) =>
        Started(404)

\* C2 amended: without an actor dispatcher every WebFinger request that
\* passes negotiation is answered by the not-found hook (404 by default),
\* whatever its resource parameter; one that fails negotiation gets the
\* not-acceptable hook.
C2_NoDispatcher404 ==
    (Handled /\ IsNone(server.actor_dispatcher) /\ Routed("webfinger")) =>
        IF Acceptable(request.accept)
        THEN /\ outcome.hook = "on_not_found"
             /\ Answered(404, "text/plain", Text("Not Found"))
             /\ outcome.calls = <<>>
        ELSE outcome.hook = "on_not_acceptable"

\* Without an actor dispatcher a well-formed WebFinger request for alice
\* was answered 404.
C2_Witness ==
    /\ Handled
    /\ IsNone(server.actor_dispatcher)
    /\ Routed("webfinger")
    /\ request.resource = Resource(<<"acct:", "alice", "@", Host>>)
    /\ request.accept = {Media("application", "activity+json")}
    /\ Started(404)

\* A WebFinger request that passed negotiation.
Webfinger == Handled /\ Routed("webfinger") /\ Acceptable(request.accept)

\* The URL the route map gives the handle's actor for this request.
ActorUrl(handle) == actor_uri(server, request, handle).ok

\* The JSON of the response body.
BodyJson == outcome.sent[2].body.json

\* C6: a WebFinger request with resource acct:H@host, H an actor the
\* dispatcher returns, is answered 200 application/jrd+json with the
\* resource as subject, the actor URL as the only alias and the self link
\* first; an actor without url gets exactly that one link.
C6_WebfingerSuccess ==
    \A h \in Known :
        (/\ Webfinger
         /\ ~IsNone(server.actor_dispatcher)
         /\ request.resource = Resource(<<"acct:", h, "@", Host>>)) =>
            /\ Started(200)
            /\ outcome.sent[1].content_type = "application/jrd+json"
            /\ BodyJson.subject = "acct:" \o h \o "@" \o Host
            /\ BodyJson.aliases = <<ActorUrl(h)>>
            /\ BodyJson.links[1] =
                    [rel |-> "self", type |-> "application/activity+json",
                     href |-> ActorUrl(h)]
            /\ h = "alice" => Len(BodyJson.links) = 1

\* The resource is acct:<handle>@<host> with the request's host.
HasAcctForm(tokens) ==
    /\ Len(tokens) >= 4
    /\ tokens[1] = "acct:"
    /\ tokens[Len(tokens) - 1] = "@"
    /\ tokens[Len(tokens)] = Host
    /\ \A i \in 2..(Len(tokens) - 2) : tokens[i] # "@"

\* C7: a WebFinger request whose resource is not acct:<handle>@<host> for
\* the request's host is answered 404 without the dispatcher being called;
\* one whose handle the dispatcher does not know is answered 404; neither
\* gets a JRD.
C7_WebfingerRejection ==
    (/\ Webfinger
     /\ ~IsNone(server.actor_dispatcher)
     /\ request.resource # None) =>
        /\ ~HasAcctForm(request.resource.tokens) =>
                Started(404) /\ outcome.calls = <<>>
        /\ request.resource = Resource(<<"acct:", "nobody", "@", Host>>) =>
                Started(404)

\* C8 as stated: a WebFinger request without a resource parameter is
\* answered 400 "Missing resource parameter", before any dispatcher lookup.
C8_MissingResourceFirst ==
    (Handled /\ Routed("webfinger") /\ request.resource = None) =>
        Answered(400, "text/plain", Text("Missing resource parameter"))

\* C8 amended: when an actor dispatcher is registered, a WebFinger request
\* that passed negotiation and carries no resource parameter is answered 400
\* text/plain "Missing resource parameter" and no user callable is called;
\* when none is registered the same request is answered by the not-found
\* hook.
C8_MissingResource ==
    (Webfinger /\ request.resource = None) =>
        IF IsNone(server.actor_dispatcher)
        THEN outcome.hook = "on_not_found" /\ Started(404)
        ELSE /\ outcome.hook = "none"
             /\ Answered(400, "text/plain",
                         Text("Missing resource parameter"))
             /\ outcome.calls = <<>>

\* With an actor dispatcher registered, a WebFinger request without a
\* resource was answered 400.
C8_Witness ==
    /\ Webfinger
    /\ ~IsNone(server.actor_dispatcher)
    /\ request.resource = None
    /\ Started(400)

\* C9: a request matching the actor route calls the actor dispatcher with
\* the captured handle and nothing else; an actor is answered 200 with the
\* ld+json content type and its compacted JSON-LD, no actor gets the
\* not-found hook and no 200.
C9_ActorFlow ==
    (Handled /\ Routed("actor") /\ Acceptable(request.accept)) =>
        /\ outcome.calls = <<Call("actor_dispatcher", RoutedHandle, NoCursor)>>
        /\ IF RoutedHandle \in Known
           THEN /\ IsOk(jsonld(dispatch_actor(server, request, RoutedHandle),
                               FALSE))
                /\ Answered(200, LdJson,
                        Json(jsonld(dispatch_actor(server, request,
                                                   RoutedHandle), FALSE).ok))
           ELSE outcome.hook = "on_not_found" /\ ~Started(200)

\* C10: an outbox request without cursor, the first-cursor supplier being
\* unregistered or yielding nothing, calls the outbox dispatcher with no
\* cursor; no page is answered 404, a page is answered 200 with an
\* OrderedCollection whose totalItems is the counter's result and whose
\* orderedItems are the page's items.
C10_OutboxIndex ==
    (/\ Handled /\ Routed("outbox") /\ Acceptable(request.accept)
     /\ request.cursor = None
     /\ IsNone(get_outbox_first_cursor(server, RoutedHandle).result)) =>
        /\ Call("outbox_dispatcher", RoutedHandle, None)
                \in SeqToSet(outcome.calls)
        /\ IF RoutedHandle \in Known
           THEN /\ Started(200)
                /\ BodyJson.compacted["@type"] =
                        <<PyStr(AS("OrderedCollection"))>>
                /\ HasKey(BodyJson.compacted, AS("totalItems"))
                /\ HasKey(BodyJson.compacted, AS("orderedItems"))
                /\ Len(BodyJson.compacted[AS("orderedItems")]) =
                        Len(dispatch_outbox(RoutedHandle, None).items)
           ELSE Started(404)

\* An outbox request that passed negotiation.
Outbox == Handled /\ Routed("outbox") /\ Acceptable(request.accept)

\* The URL the route map gives the handle's outbox, with a cursor.
OutboxUrl(handle, cursor) ==
    outbox_uri(server, request, handle).ok \o "?cursor=" \o quote(cursor.s)

\* The node a link to a URL is rendered as.
IdNode(url) == <<"@id" :> PyStr(url)>>

\* What the suppliers and the counter answer for the routed handle.
FirstCursor == get_outbox_first_cursor(server, RoutedHandle).result
LastCursor == get_outbox_last_cursor(server, RoutedHandle).result
TotalItems == Server_count_outbox(server, RoutedHandle).result

\* C11: an outbox request without cursor whose first-cursor supplier yields
\* c1 is answered 200 with an OrderedCollection whose totalItems is the
\* counter's result, whose first is <outbox-URL>?cursor=<quoted c1>, whose
\* last is <outbox-URL>?cursor=<quoted c2> when the last-cursor supplier
\* yields c2, and which carries no items.
C11_OutboxIndexFirstCursor ==
    (/\ Outbox /\ request.cursor = None
     /\ ~IsNone(FirstCursor) /\ ~IsNone(TotalItems)) =>
        /\ Started(200)
        /\ outcome.sent[1].content_type = LdJson
        /\ BodyJson.compacted["@type"] = <<PyStr(AS("OrderedCollection"))>>
        /\ BodyJson.compacted[AS("totalItems")] =
                <<jsonld(TotalItems, TRUE).ok>>
        /\ BodyJson.compacted[AS("first")] =
                IdNode(OutboxUrl(RoutedHandle, FirstCursor))
        /\ ~IsNone(LastCursor) =>
                BodyJson.compacted[AS("last")] =
                    IdNode(OutboxUrl(RoutedHandle, LastCursor))
        /\ ~HasKey(BodyJson.compacted, AS("items"))
        /\ ~HasKey(BodyJson.compacted, AS("orderedItems"))

\* The page the outbox dispatcher returns for the request's cursor.
ThePage == dispatch_outbox(RoutedHandle, request.cursor)

\* C12: an outbox request with cursor c calls the outbox dispatcher with
\* exactly c; no page is answered 404, a page is answered 200 with an
\* OrderedCollectionPage whose orderedItems are the page's items in order
\* and whose prev and next are <outbox-URL>?cursor=<quoted cursor>.
C12_OutboxPage ==
    (Outbox /\ request.cursor # None) =>
        /\ outcome.calls =
                <<Call("outbox_dispatcher", RoutedHandle, request.cursor)>>
        /\ IF IsNone(ThePage) THEN Started(404)
           ELSE /\ Started(200)
                /\ BodyJson.compacted["@type"] =
                        <<PyStr(AS("OrderedCollectionPage"))>>
                /\ HasKey(BodyJson.compacted, AS("orderedItems"))
                /\ BodyJson.compacted[AS("orderedItems")] =
                        [i \in DOMAIN ThePage.items |->
                            jsonld(ThePage.items[i], TRUE).ok]
                /\ ~IsNone(ThePage.prev_cursor) =>
                        BodyJson.compacted[AS("prev")] =
                            IdNode(OutboxUrl(RoutedHandle,
                                             ThePage.prev_cursor))
                /\ ~IsNone(ThePage.next_cursor) =>
                        BodyJson.compacted[AS("next")] =
                            IdNode(OutboxUrl(RoutedHandle,
                                             ThePage.next_cursor))

\* C13: an outbox response whose optional part is absent is still a 200
\* collection document that leaves the part out: prev or next of a page
\* without that cursor, totalItems or last of an index whose counter or
\* last-cursor supplier is unregistered or yields nothing.
C13_AbsentPartsOmitted ==
    Outbox =>
        /\ (/\ request.cursor # None /\ ~IsNone(ThePage)
            /\ IsNone(ThePage.prev_cursor)) =>
                Started(200) /\ ~HasKey(BodyJson.compacted, AS("prev"))
        /\ (/\ request.cursor # None /\ ~IsNone(ThePage)
            /\ IsNone(ThePage.next_cursor)) =>
                Started(200) /\ ~HasKey(BodyJson.compacted, AS("next"))
        /\ (/\ request.cursor = None /\ ~IsNone(FirstCursor)
            /\ IsNone(TotalItems)) =>
                Started(200) /\ ~HasKey(BodyJson.compacted, AS("totalItems"))
        /\ (/\ request.cursor = None /\ ~IsNone(FirstCursor)
            /\ IsNone(LastCursor)) =>
                Started(200) /\ ~HasKey(BodyJson.compacted, AS("last"))

\* The rule the latest registration for the role added to the route map.
LastRule(endpoint) ==
    LET forEndpoint == SelectSeq(server.map, LAMBDA r : r.endpoint = endpoint)
    IN forEndpoint[Len(forEndpoint)]

\* C15: a second registration for a role replaces the first, its URL pattern
\* included: a request is handled for the role only when its path matches
\* the pattern of the latest registration, and the role's URLs are built
\* from that pattern.
C15_RegistrationReplaces ==
    \A endpoint \in {"actor", "outbox"} :
        (Handled /\ Routed(endpoint)) =>
            /\ RuleMatches(LastRule(endpoint), request.path)
            /\ MapBuild(server.map, request.scheme, endpoint, RoutedHandle) =
                    Ok(request.scheme \o "://" \o Host \o
                       JoinPath(LastRule(endpoint).rule, RoutedHandle))

\* C14: clone produces an independent server: right after clone the copy
\* has the same five handles and the same route rules as the original, and
\* a later registration on either server leaves the other server's handles
\* and rules unchanged.
C14_CloneIndependent ==
    [][/\ (IsNone(server2) /\ ~IsNone(server2')) =>
            server2'.server = server /\ server' = server
       /\ (~IsNone(server2) /\ server' # server) =>
            server2'.server = server2.server
       /\ (~IsNone(server2) /\ server2' # server2) =>
            server' = server]_vars

\* A server with a dispatcher was cloned, then the original registered a
\* second actor pattern and the clone a last-cursor supplier.
C14_Witness ==
    /\ ~IsNone(server2)
    /\ Len(server2.server.map) = 2 /\ Len(server.map) = 3
    /\ ~IsNone(server2.server.actor_dispatcher)
    /\ ~IsNone(server2.server.outbox_last_cursor)
    /\ IsNone(server.outbox_last_cursor)

\* The user callables the handled request invoked, in the order of the
\* calls.
Called == [i \in DOMAIN outcome.calls |-> outcome.calls[i].fn]

\* The place of a user callable in the outbox index flow.
Rank(fn) ==
    CASE fn = "outbox_first_cursor" -> 1
      [] fn = "outbox_last_cursor" -> 2
      [] fn = "outbox_counter" -> 3
      [] fn = "outbox_dispatcher" -> 4
      [] OTHER -> 0

\* The call at place i of the handled request failed: the callable raised
\* or the request was cancelled while it was awaited.
FailedAt(i) == IsErr(Raises(Called[i], outcome.calls[i].handle))

\* C28: within one outbox index request the user callables are invoked in
\* the order first-cursor supplier, last-cursor supplier, counter, outbox
\* dispatcher; within any request each callable is invoked at most once;
\* and a call that failed or was cancelled is the last call of the request,
\* whose exception leaves the handler with nothing sent.
C28_CallOrder ==
    Handled =>
        /\ (Routed("outbox") /\ IsNone(request.cursor)) =>
                \A i, j \in DOMAIN Called :
                    i < j => /\ 0 < Rank(Called[i])
                             /\ Rank(Called[i]) < Rank(Called[j])
        /\ \A i, j \in DOMAIN Called : i # j => Called[i] # Called[j]
        /\ \A i \in DOMAIN Called :
                FailedAt(i) =>
                    /\ i = Len(Called)
                    /\ outcome.raised =
                            Raises(Called[i], outcome.calls[i].handle).err
                    /\ outcome.sent = <<>>

\* An outbox index request called the two suppliers, the counter and the
\* dispatcher, and was cancelled while the dispatcher was awaited.
C28_Witness ==
    /\ Handled /\ Routed("outbox") /\ IsNone(request.cursor)
    /\ Called = <<"outbox_first_cursor", "outbox_last_cursor",
                  "outbox_counter", "outbox_dispatcher">>
    /\ FailedAt(4) /\ outcome.raised = "CancelledError"

\* The request was answered with a failure status.
FailureResponse == outcome.sent # <<>> /\ outcome.sent[1].status >= 400

\* C22 as stated: every failure outcome of the request adapter comes from
\* invoking a hook, never from the adapter writing an error response
\* itself.
C22_AllFailuresViaHook ==
    (request # None) =>
        /\ request.type # "http" => outcome.hook = "on_non_http"
        /\ (Handled /\ FailureResponse) => outcome.hook # "none"

\* C22 amended: every failure response of the request adapter comes from
\* invoking the corresponding hook (a non-HTTP scope goes to on_non_http,
\* an unmatched path or a missing actor or outbox to on_not_found, a
\* rejected Accept header to on_not_acceptable) and is what that hook sent,
\* except the 400 "Missing resource parameter" of the WebFinger flow, which
\* the adapter writes itself.
C22_FailuresViaHookBut400 ==
    (request # None) =>
        /\ request.type # "http" =>
                outcome.hook = "on_non_http" /\ outcome.calls = <<>>
        /\ (Handled /\ FailureResponse) =>
                \/ /\ outcome.hook = "on_not_found"
                   /\ Started(404)
                \/ /\ outcome.hook = "on_not_acceptable"
                   /\ Started(406)
                   /\ ~Acceptable(request.accept)
                \/ /\ outcome.hook = "none"
                   /\ outcome = MissingResource
                   /\ Routed("webfinger")
                   /\ IsNone(request.resource)

\* A request on the actor route called the actor dispatcher, which knew no
\* such actor, and the not-found hook produced the 404.
C22_Witness ==
    /\ Handled /\ Routed("actor")
    /\ outcome.calls # <<>> /\ Called = <<"actor_dispatcher">>
    /\ outcome.hook = "on_not_found" /\ Started(404)

\* The adapter handed the request to one hook and did nothing else: the
\* outcome is the hook's.
Delegated ==
    outcome \in {not_found(outcome.calls), not_acceptable(outcome.calls)}

\* The adapter itself sent one response start and then one response body
\* that is the last.
SentOneResponse ==
    /\ outcome.hook = "none"
    /\ Len(outcome.sent) = 2
    /\ outcome.sent[1].type = "http.response.start"
    /\ outcome.sent[2].type = "http.response.body"
    /\ outcome.sent[2].more_body = FALSE

\* The first-cursor supplier is registered and answers with a cursor for
\* the handle of the request.
FirstCursorPresent ==
    /\ ~IsNone(server.outbox_first_cursor)
    /\ IsStr(get_outbox_first_cursor(server, RoutedHandle).result)

\* C29: every HTTP request handled to completion was either delegated to
\* exactly one hook or answered by the adapter with exactly one response
\* start followed by exactly one response body with more_body false, never
\* both; and an outbox index request with a first cursor present does not
\* invoke the outbox dispatcher.
C29_OneOutcome ==
    Handled =>
        /\ outcome.raised = "none" =>
                /\ Delegated \/ SentOneResponse
                /\ ~(Delegated /\ SentOneResponse)
        /\ (Routed("outbox") /\ IsNone(request.cursor)
                /\ FirstCursorPresent) =>
                \A i \in DOMAIN Called : Called[i] # "outbox_dispatcher"

\* An outbox index request whose first-cursor supplier gave no cursor
\* called the outbox dispatcher last and was handled to completion by one
\* hook.
C29_Witness ==
    /\ Handled /\ Routed("outbox") /\ IsNone(request.cursor)
    /\ ~IsNone(server.outbox_first_cursor) /\ ~FirstCursorPresent
    /\ Called # <<>> /\ Called[Len(Called)] = "outbox_dispatcher"
    /\ outcome.raised = "none" /\ Delegated /\ ~SentOneResponse

\* The endpoints of the rules of a server's route map.
Endpoints(srv) == {srv.map[i].endpoint : i \in DOMAIN srv.map}

\* The route map holds the WebFinger rule, a rule for the actor endpoint
\* exactly when the actor dispatcher is set, and a rule for the outbox
\* endpoint exactly when the outbox dispatcher is set.
RulesMatchHandles(srv) ==
    /\ \E i \in DOMAIN srv.map : srv.map[i] = Rule(WebfingerPath, "webfinger")
    /\ "actor" \in Endpoints(srv) <=> ~IsNone(srv.actor_dispatcher)
    /\ "outbox" \in Endpoints(srv) <=> ~IsNone(srv.outbox_dispatcher)

\* C30: in every server state reached by construction, registrations and
\* clone, on the server and on its clone, the route map holds the WebFinger
\* rule, a rule for the actor endpoint iff the actor dispatcher is set and
\* a rule for the outbox endpoint iff the outbox dispatcher is set; and
\* handling a request changes neither the handles nor the rules of either
\* server.
C30_RulesMatchHandles ==
    /\ [](/\ RulesMatchHandles(server)
          /\ ~IsNone(server2) => RulesMatchHandles(server2.server))
    /\ [][(request = None /\ request' # None) =>
            (server' = server /\ server2' = server2)]_vars

\* A server with an actor dispatcher and its clone, which registered an
\* outbox dispatcher of its own, while a request is being handled.
C30_Witness ==
    /\ ~IsNone(server2) /\ request # None
    /\ ~IsNone(server.actor_dispatcher) /\ IsNone(server.outbox_dispatcher)
    /\ ~IsNone(server2.server.outbox_dispatcher)
    /\ Len(server2.server.map) > Len(server.map)

----------------------------------------------------------------------------
(* Properties of the entity model *)

\* The entity was built as Activity(actor=A), A not a reference, and no
\* attributedTo value was given.
ActorOnly ==
    /\ IsOk(entity)
    /\ IsSubclass(entity.ok.cls, "Activity")
    /\ HasKey(entity.ok.values, AS("actor"))
    /\ ~HasKey(entity.ok.values, AS("attributedTo"))
    /\ Len(entity.ok.values[AS("actor")].items) = 1
    /\ IsEntity(entity.ok.values[AS("actor")].items[1])

TheActor == entity.ok.values[AS("actor")].items[1]

\* C3: on an Activity built with actor=A (A not a reference) and no
\* attributedTo, reading attributed_to returns A and reading attributed_tos
\* returns a sequence containing A.
C3_SubpropertyFold ==
    (ActorOnly /\ ~IsNone(read)) =>
        /\ read.name = "attributed_to" => read.result = Ok(TheActor)
        /\ read.name = "attributed_tos" =>
                /\ IsOk(read.result)
                /\ TheActor \in SeqToSet(read.result.ok)

\* Every slot item of the built entity is a value (no None among them).
RECURSIVE NoNone(_)
NoNone(items) ==
    IF items = <<>> THEN TRUE
    ELSE ~IsNone(Head(items)) /\ NoNone(Tail(items))

Valued ==
    /\ IsOk(entity)
    /\ \A u \in DOMAIN entity.ok.values :
            IsStrSlot(entity.ok.values[u]) \/ NoNone(entity.ok.values[u].items)

\* C4: an entity built by named-argument construction serializes in
\* expanded form, and parsing that document as the entity's class gives an
\* entity equal to it.
C4_RoundTripExpanded ==
    (Valued /\ ~IsNone(wire) /\ wire.origin = "entity" /\ wire.expand) =>
        /\ IsOk(wire.result)
        /\ ~IsNone(parsed) => parsed.result = Ok(entity.ok)

\* The URIs the class declares a property for.
DeclaredUris(cls) == {d.uri : d \in Declared(cls)}

\* C5: when a received document parses, every top-level property URI of it
\* that the class chosen for it declares no property for is an entry of the
\* parsed entity's serialization, with the document's value.
C5_ExtrasPreserved ==
    (~IsNone(wire) /\ wire.origin = "peer" /\ ~IsNone(parsed)
        /\ IsOk(parsed.result) /\ ~IsNone(rendered)) =>
        \A P \in DOMAIN wire.result.ok \ {"@id", "@type"} :
            P \notin DeclaredUris(parsed.result.ok.cls) =>
                /\ IsOk(rendered)
                /\ HasKey(rendered.ok, P)
                /\ rendered.ok[P] = wire.result.ok[P]

\* The document parsed last and the types it names.
ParsedDoc == wire.result.ok
ParsedTypes ==
    IF HasKey(ParsedDoc, "@type") THEN SeqToSet(ParsedDoc["@type"]) ELSE {}

\* The registered classes whose type URI the document names and which are
\* the target or a subtype of it.
Recognized(target) ==
    {c \in DeclaresUri :
        PyStr(ClassUri(c)) \in ParsedTypes /\ IsSubclass(c, target)}

\* Those of them that have no proper subtype among them.
MostSpecific(target) ==
    {c \in Recognized(target) :
        \A d \in Recognized(target) : IsSubclass(d, c) => d = c}

\* C19: when the target class is the abstract root or its type URI is not
\* in the document's @type, the entity a parse returns is an instance of
\* the most specific registered class named in @type that is a subtype of
\* the target, whatever the order of the URIs in @type.
C19_MostSpecificType ==
    (/\ ~IsNone(parsed) /\ IsOk(parsed.result)
     /\ HasKey(ParsedDoc, "@type")
     /\ \/ parsed.target = "Entity"
        \/ PyStr(TypeUri(parsed.target)) \notin ParsedTypes) =>
        parsed.result.ok.cls \in MostSpecific(parsed.target)

\* C20: a parse fails with the unknown-type error (ValueError), and makes
\* no entity, whenever no registered class named in the document's @type
\* is the target class or a subtype of it.
C20_UnknownType ==
    (/\ ~IsNone(parsed)
     /\ HasKey(ParsedDoc, "@type")
     /\ Recognized(parsed.target) = {}) =>
        parsed.result = Raise("ValueError")

\* The property read last on the built entity, and the URIs it reads:
\* its own, then its subproperties in declaration order.
ReadProperty == GetAttr(entity.ok.cls, read.name)
ReadUris == <<ReadProperty.uri>> \o ReadProperty.subproperties

\* A property of the given kind was read on the built entity.
HasRead(kind) ==
    /\ IsOk(entity) /\ ~IsNone(read)
    /\ IsProperty(ReadProperty) /\ ReadProperty.kind = kind

\* The non-reference items the entity stores under the URIs, in the order
\* of the URIs and then of each slot; an unset URI contributes nothing.
RECURSIVE PluralView(_, _)
PluralView(instance, uris) ==
    IF uris = <<>> THEN <<>>
    ELSE (IF HasKey(instance.values, Head(uris))
          THEN SelectSeq(instance.values[Head(uris)].items, NotEntityRef)
          ELSE <<>>) \o PluralView(instance, Tail(uris))

\* C23: reading a plural property returns the concatenation, in the order
\* uri, s1, ..., sn, of the non-reference items of the slots stored under
\* those URIs; a URI the entity stores nothing under contributes no items
\* and the read never fails.
C23_PluralRead ==
    HasRead("plural") => read.result = Ok(PluralView(entity.ok, ReadUris))

\* C24: reading a singular property returns the first item of the plural
\* view, and None when there is none (the property never set, or only
\* references stored).
C24_SingularRead ==
    HasRead("singular") =>
        read.result = Ok(IF PluralView(entity.ok, ReadUris) = <<>> THEN None
                         ELSE Head(PluralView(entity.ok, ReadUris)))

\* The places (URI, index) of the built entity's slots that hold a
\* reference.
RefPlaces ==
    {p \in UNION {{<<u, i>> : i \in DOMAIN entity.ok.values[u].items} :
                    u \in {v \in DOMAIN entity.ok.values :
                                ~IsStrSlot(entity.ok.values[v])}} :
        IsEntityRef(entity.ok.values[p[1]].items[p[2]])}

\* C25: an EntityRef item with URI u is serialized as the node {"@id": u}
\* with u the URI string, and a node whose only key is @id is parsed as
\* EntityRef(@id), so the parsed item equals the original reference.
C25_RefRoundTrip ==
    /\ (Valued /\ ~IsNone(wire) /\ wire.origin = "entity" /\ wire.expand) =>
            \A p \in RefPlaces :
                /\ IsOk(wire.result)
                /\ wire.result.ok[p[1]][p[2]] =
                        ("@id" :> PyStr(entity.ok.values[p[1]].items[p[2]].ref))
                /\ (~IsNone(parsed) /\ IsOk(parsed.result)) =>
                        parsed.result.ok.values[p[1]].items[p[2]] =
                            entity.ok.values[p[1]].items[p[2]]
    /\ (/\ ~IsNone(wire) /\ wire.origin = "peer"
        /\ HasKey(wire.result.ok, AS("attributedTo"))
        /\ ~IsNone(parsed) /\ IsOk(parsed.result)
        /\ IsSubclass(parsed.result.ok.cls, "Object")) =>
            parsed.result.ok.values[AS("attributedTo")].items =
                <<EntityRef(Alice)>>

\* The type of the parsed document resolves for the target: there is no
\* @type, or the target's type URI is in it, or the registry search finds a
\* subclass of the target.
TypeResolves ==
    \/ ~HasKey(ParsedDoc, "@type")
    \/ /\ parsed.target # "Entity"
       /\ PyStr(TypeUri(parsed.target)) \in ParsedTypes
    \/ ~IsNone(ResolveType(parsed.target, ParsedDoc["@type"]))

\* C26: parsing partitions the properties of a received document: a value
\* that fits no candidate never makes the parse fail, a URI is stashed
\* under extra, with its raw JSON, only if the resolved class declares no
\* property at it, and no URI is both in values and in extra.
C26_ParsePartition ==
    (~IsNone(parsed) /\ wire.origin = "peer" /\ TypeResolves) =>
        /\ IsOk(parsed.result)
        /\ \A uri \in DOMAIN ParsedDoc \ {"@type"} :
                /\ ~(/\ HasKey(parsed.result.ok.values, uri)
                     /\ HasKey(parsed.result.ok.extra, uri))
                /\ HasKey(parsed.result.ok.extra, uri) =>
                        /\ uri \notin DeclaredUris(parsed.result.ok.cls)
                        /\ parsed.result.ok.extra[uri] = ParsedDoc[uri]
                /\ uri \notin DeclaredUris(parsed.result.ok.cls) =>
                        HasKey(parsed.result.ok.extra, uri)

\* load_entity_refs has been called on the entity.
Loaded == loading # None /\ ~IsNone(loading.result)

\* Every name the call was given is the name of a declared property.
AllNamesKnown ==
    \A i \in DOMAIN NamesOf(loading.properties) :
        NamesOf(loading.properties)[i] \in DescriptorNames(loading.before.cls)

\* The URIs of the properties the call names: of every declared property
\* when it names none.
NamedUris ==
    IF IsNone(loading.properties) THEN DeclaredUris(loading.before.cls)
    ELSE {d.uri : d \in {d \in Declared(loading.before.cls) :
                    d.name \in SeqToSet(NamesOf(loading.properties))}}

\* The items of a slot with every reference replaced by the entity loaded
\* from its URI.
Resolved(items) ==
    [i \in DOMAIN items |->
        IF IsEntityRef(items[i]) THEN EntityRef_load(items[i].ref).ok
        ELSE items[i]]

\* C21: load_entity_refs with a named subset replaces, in place, every
\* reference in the slots of the named properties by the entity loaded from
\* its URI and leaves every other slot unchanged; with an unknown property
\* name it fails with AttributeError before any slot has been modified and
\* before any document has been loaded.
C21_LoadNamedSubset ==
    (Loaded /\ ~IsNone(loading.properties)) =>
        /\ ~AllNamesKnown =>
                /\ loading.result = Raise("AttributeError")
                /\ loading.after = loading.before
                /\ loading.loads = <<>>
        /\ (AllNamesKnown /\ IsOk(loading.result)) =>
                /\ loading.after.cls = loading.before.cls
                /\ loading.after.extra = loading.before.extra
                /\ DOMAIN loading.after.values = DOMAIN loading.before.values
                /\ \A uri \in DOMAIN loading.before.values :
                        loading.after.values[uri] =
                            IF uri \in NamedUris /\
                               ~IsStrSlot(loading.before.values[uri])
                            THEN ItemsSlot(Resolved(
                                    loading.before.values[uri].items))
                            ELSE loading.before.values[uri]

\* The registry holds, for every type URI a class declares, that class.
RegistryComplete ==
    \A c \in DeclaresUri :
        /\ ClassUri(c) \in DOMAIN entity_types
        /\ entity_types[ClassUri(c)] = c

\* The type URI is one a class declares.
IsDeclaredUri(type_uri) == \E c \in DeclaresUri : ClassUri(c) = type_uri

\* What a task's lookup gave: the declaring class for a declared type URI,
\* no class only for a URI that no class declares.
LookupRight(t) ==
    /\ tasks[t].pc = "failed" => ~IsDeclaredUri(tasks[t].uri)
    /\ tasks[t].pc \in {"expand_as", "parsed"} =>
            /\ tasks[t].cls \in DeclaresUri
            /\ ClassUri(tasks[t].cls) = tasks[t].uri

\* C27: under every interleaving of the tasks' first lookups, the registry
\* is never seen partially populated (it is empty or holds every declared
\* type URI with the class that declares it), every lookup of a declared
\* type URI gives the declaring class, the descriptor caches and the
\* descriptors a task works with are those of the class, and an entry of a
\* cache, once made, stays the same.
C27_LazyStateSafe ==
    /\ [](/\ DOMAIN entity_types # {} => RegistryComplete
          /\ \A t \in Tasks : LookupRight(t)
          /\ \A cls \in DOMAIN descriptors :
                descriptors[cls] = get_descriptors(cls)
          /\ \A cls \in DOMAIN uri_descriptors :
                uri_descriptors[cls] = UriProps(get_descriptors(cls))
          /\ \A t \in Tasks :
                tasks[t].pc = "parsed" =>
                    tasks[t].uri_props =
                        UriProps(get_descriptors(tasks[t].cls)))
    /\ [][/\ \A cls \in DOMAIN descriptors :
                /\ cls \in DOMAIN descriptors'
                /\ descriptors'[cls] = descriptors[cls]
          /\ \A uri \in DOMAIN entity_types :
                /\ uri \in DOMAIN entity_types'
                /\ entity_types'[uri] = entity_types[uri]]_vars

\* Two tasks were suspended before their first lookup at the same time; one
\* has resolved its type and parsed, the other has resolved a different
\* type and is suspended again.
C27_Witness ==
    /\ tasks[1].pc = "parsed" /\ tasks[1].uri = AS("Person")
    /\ tasks[2].pc = "expand_as" /\ tasks[2].uri = AS("Create")
    /\ "Person" \in DOMAIN uri_descriptors
    /\ "Create" \notin DOMAIN uri_descriptors

----------------------------------------------------------------------------
(* Properties of entity comparison and construction *)

\* The two entities of a comparison.
Left == made[1].result.ok
Right == made[2].result.ok

\* Call i of the comparison is cls(<name>=<value>) with the one keyword.
OneKeyword(i, name) ==
    /\ made[i].call = "new" /\ Len(made[i].input) = 1
    /\ made[i].input[1].name = name

\* The comparison is of cls(name=v) with cls(names=[v]).
AliasedPair ==
    /\ OneKeyword(1, "name") /\ OneKeyword(2, "names")
    /\ made[1].cls = made[2].cls
    /\ made[2].input[1].value = <<made[1].input[1].value>>

\* C16: two entities compare equal if and only if they have the same
\* concrete type, the same values (slot by slot, items in order) and the
\* same extra, and != is the negation; an entity built through the singular
\* name with v equals the one built through the plural alias with [v].
C16_EqualityIff ==
    ~IsNone(compared) =>
        /\ compared.eq <=> (/\ Left.cls = Right.cls
                            /\ Left.values = Right.values
                            /\ Left.extra = Right.extra)
        /\ compared.ne <=> ~compared.eq
        /\ AliasedPair => compared.eq

\* Note(name=v) was compared with Note(names=[v]) and found equal.
C16_Witness ==
    /\ ~IsNone(compared) /\ compared.eq /\ AliasedPair
    /\ made[1].cls = "Note"

\* C17: hash is defined for every constructed or parsed entity, entities
\* with extra properties included, and equal entities have equal hashes.
C17_HashAgreesWithEquality ==
    ~IsNone(compared) =>
        /\ IsOk(compared.hash[1]) /\ IsOk(compared.hash[2])
        /\ compared.eq => compared.hash[1] = compared.hash[2]

\* The descriptor a class declares under a keyword, if it declares one.
DeclaredAs(cls, key) == {d \in Declared(cls) : d.name = key}

\* Some keyword of the call names no declared property of the class.
UnknownKeyword(cls, kwargs) ==
    \E i \in DOMAIN kwargs : DeclaredAs(cls, kwargs[i].name) = {}

\* Two keywords of the call name properties with the same URI.
SharedUri(cls, kwargs) ==
    \E i, j \in DOMAIN kwargs :
        /\ i < j
        /\ \E d \in DeclaredAs(cls, kwargs[i].name) :
                \E e \in DeclaredAs(cls, kwargs[j].name) : d.uri = e.uri

\* C18: a constructor call with a keyword that names no declared property
\* of the class, or with two keywords whose properties share a property
\* URI, raises (AttributeError) and produces no entity.
C18_ConstructionErrors ==
    \A i \in DOMAIN made :
        (/\ made[i].call = "new"
         /\ \/ UnknownKeyword(made[i].cls, made[i].input)
            \/ SharedUri(made[i].cls, made[i].input)) =>
            made[i].result = Raise("AttributeError")

\* Note(names=[...], name=...) and Note(bogus=...) were both called and
\* both raised.
C18_Witness ==
    /\ Len(made) = 2
    /\ made[1].call = "new" /\ Len(made[1].input) = 2
    /\ made[1].input[1].name = "names" /\ made[1].input[2].name = "name"
    /\ IsErr(made[1].result)
    /\ OneKeyword(2, "bogus") /\ IsErr(made[2].result)

====
